---- MODULE Spec2Model ----
(***************************************************************************)
(* Search & Pricing Engine of the agro-gram marketplace backend.           *)
(*                                                                         *)
(* Money is counted in cents (1.00 = 100), confidences in hundredths       *)
(* (0.8 = 80), so that the arithmetic of the source stays exact.           *)
(***************************************************************************)
EXTENDS Integers, Sequences, FiniteSets, TLC

VARIABLES
    today,      \* the calendar day of datetime.now().date()
    store,      \* rows of the PricePrediction table, in creation order
    pc,         \* per request thread: position inside predict_market_prices
    args,       \* per request thread: arguments of the call in progress
    looked,     \* per request thread: outcome of the cache lookup
    hist,       \* results returned by predict_market_prices, in return order
    confidences, \* the last two confidence calculations, oldest first
    apiCalls,   \* requests the views have handed to predict_price_api
    viewHist,   \* responses of PricePredictionView.post, in order
    bulkResp,   \* last response of BulkPricePredictionView.post
    listings,   \* rows of the ProductListing table, in creation order
    searchLog,  \* rows of the SearchQueryLog table, in creation order
    searchResp, \* last response of a search call
    prefs       \* the buyer's UserPreference row

predictorVars == <<store, pc, args, looked, hist, confidences>>

viewVars == <<apiCalls, viewHist, bulkResp>>

searchVars == <<listings, searchLog, searchResp, prefs>>

vars == <<today, store, pc, args, looked, hist, confidences, apiCalls, viewHist,
          bulkResp,
          listings, searchLog, searchResp, prefs>>

(***************************************************************************)
(* Bounds                                                                  *)
(***************************************************************************)
MaxDay == 2         \* calendar days the clock runs through
MaxCalls == 3       \* predict_market_prices calls per behaviour
NumThreads == 2     \* request threads that may be inside a call at once
MaxViewCalls == 2   \* PricePredictionView.post requests per behaviour
MaxBulk == 2        \* entries of one bulk prediction request
MaxListings == 2    \* product listings created per behaviour
MaxLog == 1         \* search log rows written per behaviour
MaxCatalogue == 21  \* listings on offer when the default limit is tried
MaxShelf == 3       \* listings on offer when recommendations are asked for

Threads == 1..NumThreads

Min(a, b) == IF a < b THEN a ELSE b
Max(a, b) == IF a > b THEN a ELSE b

\* round(x, 2) of the quotient num/den, in cents (half rounds up)
RoundDiv(num, den) == (2 * num + den) \div (2 * den)

(***************************************************************************)
(* marketplace/models.py: the PricePrediction table                        *)
(***************************************************************************)
PricePredictionFields ==
    {"id", "crop_type", "region", "predicted_price", "current_price",
     "confidence", "prediction_period", "trend", "price_change_percentage",
     "min_predicted_price", "max_predicted_price", "data_sources",
     "algorithm_version", "is_active", "market_factors", "created_at",
     "updated_at"}

\* Django resolves every keyword of filter()/create() against the model's
\* fields; an unknown keyword raises (FieldError / TypeError).
OrmAccepts(kwargs) == kwargs \subseteq PricePredictionFields

(***************************************************************************)
(* marketplace/ai_search.py: class PricePredictor                          *)
(***************************************************************************)
PricePredictorMethods ==
    {"__init__", "predict_market_prices", "_generate_price_prediction",
     "_get_current_market_price", "_get_demand_trend", "_get_supply_outlook",
     "_get_weather_impact"}

\* keywords of the lookup  PricePrediction.objects.filter(...)
FilterKwargs == {"crop_type", "region", "prediction_horizon", "prediction_date"}

\* keywords of  PricePrediction.objects.create(...)
CreateKwargs ==
    {"crop_type", "region", "predicted_price", "confidence", "prediction_date",
     "prediction_horizon", "factors"}

\* methods _generate_price_prediction calls on self
GenerateCalls ==
    {"_get_current_market_price", "_get_seasonal_factor", "_get_demand_trend",
     "_get_supply_outlook", "_get_weather_impact"}

\* str.lower() on the crop names the model feeds in
Lower(s) ==
    CASE s = "Maize" -> "maize"
      [] s = "maize" -> "maize"
      [] s = "Tomatoes" -> "tomatoes"
      [] s = "tomatoes" -> "tomatoes"
      [] s = "Mango" -> "mango"
      [] s = "mango" -> "mango"
      [] OTHER -> s

\* _get_current_market_price: base price in cents, 100.0 for unknown crops
GetCurrentMarketPrice(crop_type) ==
    LET c == Lower(crop_type) IN
    CASE c = "maize" -> 15000
      [] c = "wheat" -> 18000
      [] c = "rice" -> 20000
      [] c = "beans" -> 30000
      [] c = "tomatoes" -> 25000
      [] OTHER -> 10000

\* the calendar month of the d-th day the model visits
MonthOf(d) == ((5 * (d - 1)) % 12) + 1

\* _get_seasonal_factor (PromptBasedSearchAI), in tenths
GetSeasonalFactor(month) ==
    CASE month \in {1, 7, 9} -> 11
      [] month \in {2, 6, 10, 12} -> 10
      [] month \in {3, 5, 11} -> 9
      [] month = 4 -> 8
      [] month = 8 -> 12
      [] OTHER -> 10

\* confidence = max(0.1, 0.8 - days_ahead / 100), in hundredths
Confidence(days_ahead) == Max(10, 80 - days_ahead)

\* the confidence calculation of _generate_price_prediction (lines 405-406)
\* evaluated for one horizon; the last two evaluations are kept
ConfidenceCalculation(days_ahead) ==
    /\ confidences' =
          (IF Len(confidences) < 2 THEN confidences ELSE Tail(confidences))
            \o <<[days_ahead |-> days_ahead,
                  confidence |-> Confidence(days_ahead)]>>
    /\ UNCHANGED <<today, store, pc, args, looked, hist>>
    /\ UNCHANGED viewVars
    /\ UNCHANGED searchVars

\* _generate_price_prediction: raises AttributeError when a method it calls
\* on self does not exist, otherwise the prediction
GeneratePricePrediction(crop_type, region, days_ahead, day) ==
    IF ~(GenerateCalls \subseteq PricePredictorMethods)
    THEN [raised |-> TRUE, predicted_price |-> 0, confidence |-> 0]
    ELSE [raised |-> FALSE,
          \* base * seasonal * 1.05 * 0.98 * 1.02, rounded to cents
          predicted_price |->
              RoundDiv(GetCurrentMarketPrice(crop_type)
                         * GetSeasonalFactor(MonthOf(day)) * 105 * 98 * 102,
                       10 * 100 * 100 * 100),
          confidence |-> Confidence(days_ahead)]

\* rows matching the cache key, as indexes into store
Matching(crop_type, region, days_ahead, day) ==
    {i \in 1..Len(store) :
        /\ store[i].crop_type = crop_type
        /\ store[i].region = region
        /\ store[i].prediction_horizon = days_ahead
        /\ store[i].prediction_date = day}

\* PricePrediction.objects.filter(...).first(): Meta.ordering is -created_at,
\* so the row created last comes first
ExistingPrediction(crop_type, region, days_ahead, day) ==
    IF ~OrmAccepts(FilterKwargs)
    THEN [outcome |-> "raised", row |-> 0]
    ELSE LET m == Matching(crop_type, region, days_ahead, day) IN
         IF m = {} THEN [outcome |-> "miss", row |-> 0]
         ELSE [outcome |-> "hit",
               row |-> CHOOSE i \in m : \A j \in m : j <= i]

\* a bug the claims are tested against: the except branch answers with the
\* crop's base price under a source tag
ErrorResultTagged ==
    [keys |-> {"crop_type", "region", "predicted_price", "horizon_days",
               "source"},
     predicted_price |-> 10000, confidence |-> 0, source |-> "fallback"]

\* the dict of the except branch: no predicted_price, no source
ErrorResult ==
    [keys |-> {"crop_type", "region", "error", "horizon_days"},
     predicted_price |-> 0, confidence |-> 0, source |-> "none"]

CachedResult(row) ==
    [keys |-> {"crop_type", "region", "predicted_price", "confidence",
               "horizon_days", "factors", "source"},
     predicted_price |-> row.predicted_price, confidence |-> row.confidence,
     source |-> "cached"]

NewResult(p) ==
    [keys |-> {"predicted_price", "confidence", "factors", "source"},
     predicted_price |-> p.predicted_price, confidence |-> p.confidence,
     source |-> "new_prediction"]

\* the arguments the model calls predict_market_prices with
PredictInputs ==
    {<<"Maize", "Central Kenya", 30>>,
     <<"Maize", "Central Kenya", 7>>,
     <<"maize", "Coast", 30>>}

InFlight == {t \in Threads : pc[t] # "idle"}

\* predict_market_prices, first step: the cache lookup of lines 347-352
PredictLookup(t, crop_type, region, days_ahead) ==
    /\ pc[t] = "idle"
    /\ Len(hist) + Cardinality(InFlight) < MaxCalls
    /\ pc' = [pc EXCEPT ![t] = "looked"]
    /\ args' = [args EXCEPT ![t] =
                 [crop_type |-> crop_type, region |-> region,
                  days_ahead |-> days_ahead, day |-> today,
                  after |-> Len(hist)]]
    /\ looked' = [looked EXCEPT ![t] =
                   ExistingPrediction(crop_type, region, days_ahead, today)]
    /\ UNCHANGED <<today, store, hist, confidences>>
    /\ UNCHANGED viewVars
    /\ UNCHANGED searchVars

\* what the rest of the call does once the lookup has returned or raised:
\* the result it returns and the row it creates (if any)
RestOfPredict(t) ==
    LET a == args[t]
        p == GeneratePricePrediction(a.crop_type, a.region, a.days_ahead, today)
    IN
    IF looked[t].outcome = "raised"
    THEN [result |-> ErrorResult, creates |-> FALSE, row |-> <<>>]
    ELSE IF looked[t].outcome = "hit"
    THEN [result |-> CachedResult(store[looked[t].row]), creates |-> FALSE,
          row |-> <<>>]
    ELSE IF p.raised \/ ~OrmAccepts(CreateKwargs)
    THEN [result |-> ErrorResult, creates |-> FALSE, row |-> <<>>]
    ELSE [result |-> NewResult(p), creates |-> TRUE,
          row |-> [crop_type |-> a.crop_type, region |-> a.region,
                   prediction_horizon |-> a.days_ahead,
                   prediction_date |-> today,
                   predicted_price |-> p.predicted_price,
                   confidence |-> p.confidence]]

\* a bug the claims are tested against: the row is written on every path
StoreAfterAlways(t, r) ==
    Append(store,
           [crop_type |-> args[t].crop_type, region |-> args[t].region,
            prediction_horizon |-> args[t].days_ahead,
            prediction_date |-> today,
            predicted_price |-> r.result.predicted_price,
            confidence |-> r.result.confidence])

\* the table after the call: PricePrediction.objects.create runs only on the
\* path that computed a new prediction
StoreAfter(t, r) == IF r.creates THEN Append(store, r.row) ELSE store

\* predict_market_prices, second step: lines 354-389
PredictReturn(t) ==
    /\ pc[t] = "looked"
    /\ LET r == RestOfPredict(t) IN
        /\ store' = StoreAfter(t, r)
        /\ hist' = Append(hist,
                     [crop_type |-> args[t].crop_type,
                      region |-> args[t].region,
                      days_ahead |-> args[t].days_ahead,
                      day |-> args[t].day,
                      after |-> args[t].after,
                      lookup |-> looked[t].outcome,
                      row |-> looked[t].row,
                      created |-> r.creates,
                      result |-> r.result])
    /\ pc' = [pc EXCEPT ![t] = "idle"]
    /\ UNCHANGED <<today, args, looked, confidences>>
    /\ UNCHANGED viewVars
    /\ UNCHANGED searchVars

\* midnight passes
NextDay ==
    /\ today < MaxDay
    /\ today' = today + 1
    /\ UNCHANGED predictorVars
    /\ UNCHANGED viewVars
    /\ UNCHANGED searchVars

(***************************************************************************)
(* recommendations/ml_models/price_predictor.py (not part of the sources): *)
(* predict_price_api, modelled from the specification of the Price         *)
(* Predictor.  A call raises, reports failure, or succeeds with a positive *)
(* price and the horizon's confidence.                                     *)
(***************************************************************************)
ApiOutcomes ==
    {[kind |-> "ok", price |-> 5000], [kind |-> "ok", price |-> 10],
     [kind |-> "fail", price |-> 0], [kind |-> "raise", price |-> 0]}

\* the result dict of predict_price_api for an outcome that does not raise
PredictPriceApi(outcome, days_ahead) ==
    IF outcome.kind = "ok"
    THEN [success |-> TRUE, predicted_price |-> outcome.price,
          confidence |-> Confidence(days_ahead)]
    ELSE [success |-> FALSE, predicted_price |-> 0, confidence |-> 0]

\* predict_global_price: absent from the predictor, raising, failing or
\* succeeding with an average price (in cents per hundredth of a unit) and
\* the horizon's confidence
GlobalOutcomes == {"noattr", "raise", "fail", "ok"}

GlobalAverage == 50

(***************************************************************************)
(* marketplace/serializers.py: request validation                          *)
(***************************************************************************)
ValidCrops ==
    {"Maize", "Rice", "Beans", "Cassava", "Wheat", "Tomatoes", "Potatoes"}

ValidPeriods == {"1 Week", "1 Month", "3 Months", "6 Months", "1 Year"}

\* str.capitalize() on the crop names the model feeds in
Capitalize(s) ==
    CASE s = "maize" -> "Maize"
      [] s = "MAIZE" -> "Maize"
      [] s = "tomatoes" -> "Tomatoes"
      [] s = "mango" -> "Mango"
      [] OTHER -> s

\* PricePredictionRequestSerializer.is_valid()
PricePredictionRequestValid(req) ==
    /\ req.cropType # ""
    /\ Capitalize(req.cropType) \in ValidCrops
    /\ req.predictionPeriod \in ValidPeriods
    /\ ~(req.prediction_days <= 0)
    /\ ~(req.prediction_days > 365)

\* BulkPricePredictionSerializer.is_valid(): a non-empty list whose entries
\* all name a valid crop; nothing else of an entry is looked at
BulkPricePredictionValid(predictions) ==
    /\ predictions # <<>>
    /\ \A i \in 1..Len(predictions) :
          /\ predictions[i].cropType # ""
          /\ Capitalize(predictions[i].cropType) \in ValidCrops

(***************************************************************************)
(* marketplace/views.py: PricePredictionView                               *)
(***************************************************************************)
\* base_prices of the fallback, in cents; 40.00 for any other crop
FallbackBasePrice(crop_type) ==
    CASE crop_type = "Maize" -> 4850
      [] crop_type = "Rice" -> 5525
      [] crop_type = "Beans" -> 6580
      [] crop_type = "Cassava" -> 3260
      [] crop_type = "Wheat" -> 4275
      [] crop_type = "Tomatoes" -> 1890
      [] crop_type = "Potatoes" -> 2245
      [] OTHER -> 4000

\* the season multiplier of the fallback, in tenths
FallbackSeason(month) ==
    IF month \in {12, 1, 2} THEN 12
    ELSE IF month \in {6, 7, 8} THEN 8
    ELSE 10

\* random.uniform(-0.1, 0.1), in percent
Variations == {-10, 10}

NoResponse ==
    [status |-> 0, success |-> FALSE, prediction_type |-> "none",
     has_price |-> FALSE, predicted_price |-> 0, confidence |-> 0]

ClientError == [NoResponse EXCEPT !.status = 400]

ServerError == [NoResponse EXCEPT !.status = 500]

\* _get_fallback_prediction
GetFallbackPrediction(crop_type, day, variation) ==
    [status |-> 200, success |-> TRUE, prediction_type |-> "fallback",
     has_price |-> TRUE,
     predicted_price |->
         RoundDiv(FallbackBasePrice(crop_type) * FallbackSeason(MonthOf(day))
                    * (100 + variation), 10 * 100),
     confidence |-> 70]

\* the response of PricePredictionView.post and the predictor calls it makes
PricePredictionResponse(req, global, api, variation, day) ==
    IF ~PricePredictionRequestValid(req)
    THEN [response |-> ClientError, calls |-> {}, api |-> "none"]
    ELSE
    LET crop_type == Capitalize(req.cropType)
        days_ahead == req.prediction_days
        tryGlobal == req.useGlobal /\ global # "noattr"
        globalCall == [method |-> "predict_global_price",
                       cropType |-> crop_type, days |-> days_ahead]
        apiCall == [method |-> "predict_price_api",
                    cropType |-> crop_type, days |-> days_ahead]
        result == PredictPriceApi(api, days_ahead)
    IN
    IF tryGlobal /\ global = "ok"
    THEN [response |->
            [status |-> 200, success |-> TRUE, prediction_type |-> "global",
             has_price |-> TRUE, predicted_price |-> GlobalAverage * 100,
             confidence |-> Confidence(days_ahead)],
          calls |-> {globalCall}, api |-> "none"]
    ELSE
    LET calls == IF tryGlobal THEN {globalCall, apiCall} ELSE {apiCall} IN
    IF api.kind = "raise"
    THEN [response |-> ServerError, calls |-> calls, api |-> "raise"]
    ELSE IF result.success
    THEN [response |->
            [status |-> 200, success |-> TRUE, prediction_type |-> "standard",
             has_price |-> TRUE, predicted_price |-> result.predicted_price,
             confidence |-> result.confidence],
          calls |-> calls, api |-> "ok"]
    ELSE [response |-> GetFallbackPrediction(crop_type, day, variation),
          calls |-> calls, api |-> "fail"]

\* the requests the model posts to PricePredictionView
PredictionRequests ==
    {[cropType |-> c, predictionPeriod |-> "1 Month", useGlobal |-> g,
      prediction_days |-> d] :
        c \in {"maize", "Mango", ""}, g \in BOOLEAN, d \in {0, 1, 5, 365, 366}}
    \cup {[cropType |-> "maize", predictionPeriod |-> "2 Months",
           useGlobal |-> FALSE, prediction_days |-> 30]}

\* PricePredictionView.post
PricePredictionPost(req, global, api, variation) ==
    /\ Len(viewHist) < MaxViewCalls
    /\ LET out == PricePredictionResponse(req, global, api, variation, today)
       IN
        /\ viewHist' = Append(viewHist,
                         [req |-> req, day |-> today, api |-> out.api,
                          invoked |-> out.calls # {},
                          response |-> out.response])
        /\ apiCalls' = apiCalls \cup out.calls
    /\ UNCHANGED <<today, bulkResp>>
    /\ UNCHANGED predictorVars
    /\ UNCHANGED searchVars

(***************************************************************************)
(* marketplace/views.py: BulkPricePredictionView                           *)
(***************************************************************************)
\* _create_fallback_prediction
CreateFallbackPrediction(crop_type, variation) ==
    [crop_type |-> crop_type,
     predicted_price |->
         RoundDiv(FallbackBasePrice(crop_type) * (100 + variation), 100),
     confidence |-> 60, prediction_type |-> "fallback"]

\* a bug the claims are tested against: the loop body does not test
\* result.get('success') and builds the entry from a failure report
BulkEntryResultUnchecked(entry, api, variation) ==
    LET crop_type == Capitalize(entry.cropType)
        result == PredictPriceApi(api, entry.days_ahead)
    IN
    IF api.kind # "raise"
    THEN [crop_type |-> crop_type, predicted_price |-> result.predicted_price,
          confidence |-> result.confidence, prediction_type |-> "enhanced"]
    ELSE CreateFallbackPrediction(crop_type, variation)

\* the prediction the loop body appends for one entry
BulkEntryResult(entry, api, variation) ==
    LET crop_type == Capitalize(entry.cropType)
        result == PredictPriceApi(api, entry.days_ahead)
    IN
    IF api.kind # "raise" /\ result.success
    THEN [crop_type |-> crop_type, predicted_price |-> result.predicted_price,
          confidence |-> result.confidence, prediction_type |-> "enhanced"]
    ELSE CreateFallbackPrediction(crop_type, variation)

NoBulkResp ==
    [status |-> 0, predictions |-> <<>>, request |-> <<>>, apis |-> <<>>]

BulkEntries ==
    {[cropType |-> "maize", days_ahead |-> 30],
     [cropType |-> "Tomatoes", days_ahead |-> 1000],
     [cropType |-> "Maize", days_ahead |-> 0],
     [cropType |-> "Mango", days_ahead |-> 30],
     [cropType |-> "", days_ahead |-> 30]}

BulkRequests ==
    UNION {[1..n -> BulkEntries] : n \in 0..MaxBulk}

\* BulkPricePredictionView.post
BulkPricePredictionPost(predictions, apis, variation) ==
    /\ IF ~BulkPricePredictionValid(predictions)
       THEN /\ bulkResp' = [status |-> 400, predictions |-> <<>>,
                            request |-> predictions, apis |-> <<>>]
            /\ apiCalls' = apiCalls
       ELSE /\ bulkResp' =
                 [status |-> 200,
                  predictions |->
                      [i \in 1..Len(predictions) |->
                          BulkEntryResult(predictions[i], apis[i], variation)],
                  request |-> predictions, apis |-> apis]
            /\ apiCalls' = apiCalls \cup
                 {[method |-> "predict_price_api",
                   cropType |-> Capitalize(predictions[i].cropType),
                   days |-> predictions[i].days_ahead] :
                      i \in 1..Len(predictions)}
    /\ UNCHANGED <<today, viewHist>>
    /\ UNCHANGED predictorVars
    /\ UNCHANGED searchVars

(***************************************************************************)
(* Text.  Strings that the code searches, splits or changes the case of    *)
(* are sequences of one-character strings.                                 *)
(***************************************************************************)
UpperAlpha == <<"A", "B", "C", "D", "E", "F", "G", "H", "I", "J", "K", "L", "M", "N", "O", "P", "Q", "R", "S", "T", "U", "V", "W", "X", "Y", "Z">>

LowerAlpha == <<"a", "b", "c", "d", "e", "f", "g", "h", "i", "j", "k", "l", "m", "n", "o", "p", "q", "r", "s", "t", "u", "v", "w", "x", "y", "z">>

Digits == <<"0", "1", "2", "3", "4", "5", "6", "7", "8", "9">>

IndexIn(seq, c) == CHOOSE i \in 1..Len(seq) : seq[i] = c

IsIn(seq, c) == \E i \in 1..Len(seq) : seq[i] = c

\* str.lower()
ToLower(s) ==
    [i \in 1..Len(s) |->
        IF IsIn(UpperAlpha, s[i]) THEN LowerAlpha[IndexIn(UpperAlpha, s[i])]
        ELSE s[i]]

\* needle in haystack
Contains(haystack, needle) ==
    \E i \in 0..(Len(haystack) - Len(needle)) :
        SubSeq(haystack, i + 1, i + Len(needle)) = needle

\* the __icontains lookup
IContains(haystack, needle) == Contains(ToLower(haystack), ToLower(needle))

\* str.strip()
Strip(s) ==
    LET idx == {i \in 1..Len(s) : s[i] # " "} IN
    IF idx = {} THEN <<>>
    ELSE SubSeq(s, CHOOSE i \in idx : \A j \in idx : i <= j,
                   CHOOSE i \in idx : \A j \in idx : j <= i)

RECURSIVE DigitsValue(_)
DigitsValue(s) ==
    IF s = <<>> THEN 0
    ELSE 10 * DigitsValue(SubSeq(s, 1, Len(s) - 1))
           + (IndexIn(Digits, s[Len(s)]) - 1)

AllDigits(s) == s # <<>> /\ \A i \in 1..Len(s) : IsIn(Digits, s[i])

\* int(text): the number, or a ValueError
ParseInt(s) ==
    IF AllDigits(s) THEN [ok |-> TRUE, value |-> DigitsValue(s)]
    ELSE IF Len(s) > 1 /\ s[1] = "-" /\ AllDigits(Tail(s))
    THEN [ok |-> TRUE, value |-> 0 - DigitsValue(Tail(s))]
    ELSE [ok |-> FALSE, value |-> 0]

\* float(text) as an amount in cents: digits with at most two decimals, or
\* a ValueError
ParseFloat(s) ==
    LET dots == {i \in 1..Len(s) : s[i] = "."} IN
    IF AllDigits(s) THEN [ok |-> TRUE, value |-> 100 * DigitsValue(s)]
    ELSE IF Cardinality(dots) = 1
    THEN LET d == CHOOSE i \in dots : TRUE
             whole == SubSeq(s, 1, d - 1)
             frac == SubSeq(s, d + 1, Len(s))
         IN IF AllDigits(whole) /\ AllDigits(frac) /\ Len(frac) <= 2
            THEN [ok |-> TRUE,
                  value |-> 100 * DigitsValue(whole)
                     + (IF Len(frac) = 1 THEN 10 ELSE 1) * DigitsValue(frac)]
            ELSE [ok |-> FALSE, value |-> 0]
    ELSE [ok |-> FALSE, value |-> 0]

(***************************************************************************)
(* marketplace/models.py: ProductCategory and ProductListing               *)
(***************************************************************************)
\* the rows of ProductCategory: id -> name
CategoryName == << <<"G", "r", "a", "i", "n", "s">>, <<"V", "e", "g", "e", "t", "a", "b", "l", "e", "s">> >>

CategoryIds == 1..Len(CategoryName)

StatusChoices == {"AVAILABLE", "SOLD", "EXPIRED", "PENDING"}

QualityChoices == {"PREMIUM", "STANDARD", "ECONOMY", "ORGANIC"}

\* the data of the listings the sellers create, in the order they create
\* them; demand_score in hundredths, price in cents
ListingData ==
    << [category |-> 1, title |-> <<"M", "a", "i", "z", "e">>,
        description |-> <<"d", "r", "y", " ", "m", "a", "i", "z", "e">>, price |-> 500,
        quality_grade |-> "STANDARD", location |-> <<"N", "a", "i", "r", "o", "b", "i">>,
        demand_score |-> 50, price_trend |-> 3, quantity |-> 150],
       [category |-> 2, title |-> <<"T", "o", "m", "a", "t", "o">>,
        description |-> <<"f", "r", "e", "s", "h">>, price |-> 1500,
        quality_grade |-> "ORGANIC", location |-> <<"K", "i", "s", "u", "m", "u">>,
        demand_score |-> 80, price_trend |-> -6, quantity |-> 10],
       [category |-> 1, title |-> <<"W", "h", "i", "t", "e", " ", "m", "a", "i", "z", "e">>,
        description |-> <<>>, price |-> 2500,
        quality_grade |-> "PREMIUM", location |-> <<"n", "a", "i", "r", "o", "b", "i", " ", "w", "e", "s", "t">>,
        demand_score |-> 35, price_trend |-> -3, quantity |-> 30] >>

NewListing(id, status) ==
    LET d == ListingData[((id - 1) % Len(ListingData)) + 1] IN
    [id |-> id, status |-> status, category |-> d.category,
     title |-> d.title, description |-> d.description, price |-> d.price,
     quality_grade |-> d.quality_grade, location |-> d.location,
     demand_score |-> d.demand_score, price_trend |-> d.price_trend,
     quantity |-> d.quantity]

(***************************************************************************)
(* Querysets: a set of row indexes plus an order                           *)
(***************************************************************************)
\* the members of a set of listing indexes, newest first (-created_at)
RECURSIVE NewestFirst(_)
NewestFirst(ids) ==
    IF ids = {} THEN <<>>
    ELSE LET m == CHOOSE i \in ids : \A j \in ids : j <= i IN
         <<m>> \o NewestFirst(ids \ {m})

\* queryset[:limit]
\* a bug the claims are tested against: the slice is left out
TakeAll(seq, limit) == seq

\* queryset[:limit]
Take(seq, limit) == SubSeq(seq, 1, Min(limit, Len(seq)))

\* ProductListingSerializer.get_price_prediction: price * (1 + trend / 100)
GetPricePrediction(l) == RoundDiv(l.price * (100 + l.price_trend), 100)

\* a demand score that is None
NoScore == -1

\* ProductListingSerializer._get_demand_level, the score in hundredths
GetDemandLevel(demand_score) ==
    IF demand_score = NoScore THEN "UNKNOWN"
    ELSE IF demand_score > 70 THEN "HIGH"
    ELSE IF demand_score > 40 THEN "MEDIUM"
    ELSE "LOW"

\* ProductListingSerializer._get_best_time_to_buy: the timing; the score in
\* hundredths, the trend in percent
GetBestTimeToBuy(l) ==
    IF l.demand_score = NoScore THEN "UNKNOWN"
    ELSE IF l.demand_score > 70 /\ l.price_trend > 0 THEN "SOON"
    ELSE IF l.demand_score < 30 /\ l.price_trend < 0 THEN "NOW"
    ELSE "FLEXIBLE"

\* what ProductListingSerializer returns for the rows of a queryset
Serialize(ids) ==
    [k \in 1..Len(ids) |->
        [id |-> listings[ids[k]].id,
         status |-> listings[ids[k]].status,
         category |-> listings[ids[k]].category,
         price |-> listings[ids[k]].price,
         quality_grade |-> listings[ids[k]].quality_grade,
         location |-> listings[ids[k]].location,
         demand_score |-> listings[ids[k]].demand_score,
         predicted_price |-> GetPricePrediction(listings[ids[k]]),
         demand_level |-> GetDemandLevel(listings[ids[k]].demand_score),
         best_time_to_buy |-> GetBestTimeToBuy(listings[ids[k]])]]

\* ProductListing.objects.filter(status='AVAILABLE')
\* a bug the claims are tested against: the status filter is left out
AvailableAnyStatus == {i \in 1..Len(listings) : TRUE}

\* ProductListing.objects.filter(status='AVAILABLE')
Available == {i \in 1..Len(listings) : listings[i].status = "AVAILABLE"}

\* keywords and defaults of SearchQueryLog
SearchQueryLogFields ==
    {"id", "user", "query", "results_count", "filters_applied",
     "search_duration", "is_successful", "click_count", "session_id",
     "user_agent", "created_at"}

\* SearchQueryLog.objects.create(**kwargs): the table after the call, or a
\* raise when a keyword is not a field or the database refuses the write
LogCreate(kwargs, results_count, dbFails) ==
    IF ~(kwargs \subseteq SearchQueryLogFields) \/ dbFails
    THEN [raised |-> TRUE, log |-> searchLog]
    ELSE [raised |-> FALSE,
          log |-> Append(searchLog, [results_count |-> results_count])]

(***************************************************************************)
(* Request values: a query parameter or JSON value is absent, null, text   *)
(* or a number (amounts in cents)                                          *)
(***************************************************************************)
Absent == [t |-> "absent", s |-> <<>>, n |-> 0]

Null == [t |-> "null", s |-> <<>>, n |-> 0]

Str(s) == [t |-> "str", s |-> s, n |-> 0]

Num(n) == [t |-> "num", s |-> <<>>, n |-> n]

\* Python truthiness of a value
Truthy(v) == (v.t = "str" /\ v.s # <<>>) \/ (v.t = "num" /\ v.n # 0)

\* dict.get(key, default)
GetOr(v, default) == IF v.t = "absent" THEN default ELSE v

\* int(v)
IntOf(v) ==
    IF v.t = "num" THEN [ok |-> TRUE, value |-> v.n]
    ELSE IF v.t = "str" THEN ParseInt(v.s)
    ELSE [ok |-> FALSE, value |-> 0]

\* float(v), in cents
FloatOf(v) ==
    IF v.t = "num" THEN [ok |-> TRUE, value |-> v.n]
    ELSE IF v.t = "str" THEN ParseFloat(v.s)
    ELSE [ok |-> FALSE, value |-> 0]

\* a search request: the query text, the filters by the key they are sent
\* under, and the limit
NoRequest ==
    [q |-> <<>>, category |-> Absent, price_min |-> Absent,
     price_max |-> Absent, min_price |-> Absent, max_price |-> Absent,
     quality |-> "", location |-> <<>>, limit |-> Absent]

NoSearchResp ==
    [endpoint |-> "none", req |-> NoRequest, status |-> 0, results |-> <<>>,
     total |-> 0]

SearchError(endpoint, req, status) ==
    [endpoint |-> endpoint, req |-> req, status |-> status, results |-> <<>>,
     total |-> 0]

\* one request is served at a time: no response is waiting to be sent
Idle == searchResp = NoSearchResp

\* the response of the call goes out to the client
SendResponse ==
    /\ ~Idle
    /\ searchResp' = NoSearchResp
    /\ UNCHANGED <<today, listings, searchLog, prefs>>
    /\ UNCHANGED predictorVars
    /\ UNCHANGED viewVars

\* ProductListingViewSet.create: the serializer takes the status the seller
\* sends (default AVAILABLE); created_at grows with the id
CreateListingBounded(status, bound) ==
    /\ Idle
    /\ Len(listings) < bound
    /\ listings' = Append(listings, NewListing(Len(listings) + 1, status))
    /\ UNCHANGED <<today, searchLog, searchResp, prefs>>
    /\ UNCHANGED predictorVars
    /\ UNCHANGED viewVars

CreateListing(status) == CreateListingBounded(status, MaxListings)

\* a listing is sold, expires, is held for review or is put back
ChangeStatus(i, status) ==
    /\ Idle
    /\ i \in 1..Len(listings)
    /\ listings[i].status # status
    /\ listings' = [listings EXCEPT ![i].status = status]
    /\ UNCHANGED <<today, searchLog, searchResp, prefs>>
    /\ UNCHANGED predictorVars
    /\ UNCHANGED viewVars

(***************************************************************************)
(* marketplace/views.py: ProductSearchView                                 *)
(***************************************************************************)
\* the rows ProductSearchView.get selects, before ordering and slicing
GetMatches(req) ==
    LET query == Strip(req.q)
        category == GetOr(req.category, Str(<<>>))
        price_min == GetOr(req.price_min, Str(<<>>))
        price_max == GetOr(req.price_max, Str(<<>>))
    IN
    {i \in Available :
        /\ query # <<>> =>
              \/ IContains(listings[i].title, query)
              \/ IContains(listings[i].description, query)
              \/ IContains(CategoryName[listings[i].category], query)
        /\ Truthy(category) =>
              IF IntOf(category).ok
              THEN listings[i].category = IntOf(category).value
              ELSE CategoryName[listings[i].category] = category.s
        /\ (Truthy(price_min) /\ FloatOf(price_min).ok) =>
              listings[i].price >= FloatOf(price_min).value
        /\ (Truthy(price_max) /\ FloatOf(price_max).ok) =>
              listings[i].price <= FloatOf(price_max).value
        /\ req.quality # "" => listings[i].quality_grade = req.quality
        /\ req.location # <<>> => IContains(listings[i].location, req.location)}

\* ProductSearchView.get: the response and the log table after it
SearchGetOutcome(req, dbFails) ==
    LET limit == IntOf(GetOr(req.limit, Str(<<"2", "0">>)))
        products == Take(NewestFirst(GetMatches(req)), limit.value)
        logs == Strip(req.q) # <<>>
                  \/ Truthy(req.category) \/ Truthy(req.price_min)
                  \/ Truthy(req.price_max) \/ req.quality # ""
                  \/ req.location # <<>>
        created == LogCreate({"user", "query", "results_count",
                              "filters_applied"}, Len(products), dbFails)
    IN
    IF ~limit.ok \/ limit.value < 0
    THEN [resp |-> SearchError("get", req, 500), log |-> searchLog]
    ELSE IF logs /\ created.raised
    THEN [resp |-> SearchError("get", req, 500), log |-> searchLog]
    ELSE [resp |-> [endpoint |-> "get", req |-> req, status |-> 200,
                    results |-> Serialize(products), total |-> Len(products)],
          log |-> IF logs THEN created.log ELSE searchLog]

\* ProductSearchView.get
SearchGet(req, dbFails) ==
    /\ Idle
    /\ LET out == SearchGetOutcome(req, dbFails) IN
        /\ Len(out.log) <= MaxLog
        /\ searchResp' = out.resp
        /\ searchLog' = out.log
    /\ UNCHANGED <<today, listings, prefs>>
    /\ UNCHANGED predictorVars
    /\ UNCHANGED viewVars

\* the rows the second (effective) ProductSearchView.post selects by query
PostMatches(query) ==
    {i \in Available :
        \/ IContains(listings[i].title, query)
        \/ IContains(listings[i].description, query)}

\* ProductSearchView.post as the class ends up defining it (the second
\* definition replaces the first): the response and the log table after it
SearchPostOutcome(req, dbFails) ==
    LET query == Strip(req.q)
        limit == GetOr(req.limit, Num(20))
        sliced == limit.t = "num"
        base == IF sliced
                THEN Take(NewestFirst(PostMatches(query)), limit.n)
                ELSE NewestFirst(PostMatches(query))
        anyFilter == Truthy(req.category) \/ Truthy(req.price_min)
                       \/ Truthy(req.price_max) \/ req.quality # ""
                       \/ req.location # <<>>
        badFloat == \/ Truthy(req.price_min) /\ ~FloatOf(req.price_min).ok
                    \/ Truthy(req.price_max) /\ ~FloatOf(req.price_max).ok
        filtered ==
            {i \in PostMatches(query) :
                /\ Truthy(req.category) =>
                      /\ req.category.t = "str"
                      /\ CategoryName[listings[i].category] = req.category.s
                /\ Truthy(req.price_min) =>
                      listings[i].price >= FloatOf(req.price_min).value
                /\ Truthy(req.price_max) =>
                      listings[i].price <= FloatOf(req.price_max).value
                /\ req.quality # "" => listings[i].quality_grade = req.quality
                /\ req.location # <<>> =>
                      IContains(listings[i].location, req.location)}
        products == IF sliced THEN base ELSE NewestFirst(filtered)
        created == LogCreate({"user", "query", "results_count",
                              "filters_applied"}, Len(products), dbFails)
    IN
    IF query = <<>>
    THEN [resp |-> SearchError("post", req, 400), log |-> searchLog]
    ELSE IF limit.t \notin {"num", "null"} \/ (sliced /\ limit.n < 0)
    THEN [resp |-> SearchError("post", req, 500), log |-> searchLog]
    \* a sliced queryset cannot be filtered again
    ELSE IF (sliced /\ anyFilter) \/ badFloat \/ created.raised
    THEN [resp |-> SearchError("post", req, 500), log |-> searchLog]
    ELSE [resp |-> [endpoint |-> "post", req |-> req, status |-> 200,
                    results |-> Serialize(products), total |-> Len(products)],
          log |-> created.log]

\* ProductSearchView.post
SearchPost(req, dbFails) ==
    /\ Idle
    /\ LET out == SearchPostOutcome(req, dbFails) IN
        /\ Len(out.log) <= MaxLog
        /\ searchResp' = out.resp
        /\ searchLog' = out.log
    /\ UNCHANGED <<today, listings, prefs>>
    /\ UNCHANGED predictorVars
    /\ UNCHANGED viewVars

(***************************************************************************)
(* marketplace/models.py: UserPreference (one buyer)                       *)
(***************************************************************************)
\* an optional decimal: NULL or an amount in cents
NoAmount == [null |-> TRUE, v |-> 0]

Amount(v) == [null |-> FALSE, v |-> v]

\* Python truthiness of an optional Decimal
AmountTruthy(a) == ~a.null /\ a.v # 0

\* the row the model's defaults give (get_or_create)
DefaultPreference ==
    [exists |-> TRUE, preferred_categories |-> {}, quality_preference |-> "",
     price_range_min |-> NoAmount, price_range_max |-> NoAmount,
     preferred_location |-> <<>>]

\* no row for the buyer
NoPreference == [DefaultPreference EXCEPT !.exists = FALSE]

\* the row the post_save signal create_user_preferences writes for a new
\* buyer, here one whose first name is Amina
SignalPreference ==
    [DefaultPreference EXCEPT
        !.preferred_location = <<"A", "m", "i", "n", "a", "'", "s", " ", "L", "o", "c", "a", "t", "i", "o", "n">>]

\* the post_save signal of UserProfile, for a buyer who registers
CreateUserPreferences ==
    /\ Idle
    /\ ~prefs.exists
    /\ prefs' = SignalPreference
    /\ UNCHANGED <<today, listings, searchLog, searchResp>>
    /\ UNCHANGED predictorVars
    /\ UNCHANGED viewVars

\* UserPreference.objects.get_or_create(user=request.user)
GetOrCreatePreference == IF prefs.exists THEN prefs ELSE DefaultPreference

\* UserPreferenceView.get
PreferenceGet ==
    /\ Idle
    /\ ~prefs.exists
    /\ prefs' = GetOrCreatePreference
    /\ UNCHANGED <<today, listings, searchLog, searchResp>>
    /\ UNCHANGED predictorVars
    /\ UNCHANGED viewVars

\* UserPreferenceSerializer(partial=True).is_valid() for the fields a
\* request carries: the field validators, then validate(), which looks at
\* the request's own values only
PreferenceValid(data) ==
    /\ "quality_preference" \in data.keys =>
          data.quality_preference \in QualityChoices \cup {""}
    /\ "preferred_categories" \in data.keys =>
          data.preferred_categories \subseteq CategoryIds
    /\ "price_range_min" \in data.keys =>
          data.price_range_min.null \/ data.price_range_min.v >= 0
    /\ "price_range_max" \in data.keys =>
          data.price_range_max.null \/ data.price_range_max.v >= 0
    /\ ~(/\ "price_range_min" \in data.keys
         /\ "price_range_max" \in data.keys
         /\ AmountTruthy(data.price_range_min)
         /\ AmountTruthy(data.price_range_max)
         /\ data.price_range_min.v > data.price_range_max.v)

\* serializer.save(): the fields the request carries replace the stored ones
PreferenceSaved(row, data) ==
    [exists |-> TRUE,
     preferred_categories |->
         IF "preferred_categories" \in data.keys
         THEN data.preferred_categories ELSE row.preferred_categories,
     quality_preference |->
         IF "quality_preference" \in data.keys
         THEN data.quality_preference ELSE row.quality_preference,
     price_range_min |->
         IF "price_range_min" \in data.keys
         THEN data.price_range_min ELSE row.price_range_min,
     price_range_max |->
         IF "price_range_max" \in data.keys
         THEN data.price_range_max ELSE row.price_range_max,
     preferred_location |->
         IF "preferred_location" \in data.keys
         THEN data.preferred_location ELSE row.preferred_location]

\* UserPreferenceView.post
PreferencePost(data) ==
    /\ Idle
    /\ prefs' = IF PreferenceValid(data)
                THEN PreferenceSaved(GetOrCreatePreference, data)
                ELSE GetOrCreatePreference
    /\ prefs' # prefs
    /\ UNCHANGED <<today, listings, searchLog, searchResp>>
    /\ UNCHANGED predictorVars
    /\ UNCHANGED viewVars

\* a request body for UserPreferenceView.post: keys names the fields sent
PreferenceData(keys, cats, quality, pmin, pmax, loc) ==
    [keys |-> keys, preferred_categories |-> cats,
     quality_preference |-> quality, price_range_min |-> pmin,
     price_range_max |-> pmax, preferred_location |-> loc]

(***************************************************************************)
(* marketplace/views.py: ProductListingViewSet.personalized                *)
(***************************************************************************)
\* i comes before j under order_by('-demand_score', '-created_at')
DemandBefore(i, j) ==
    \/ listings[i].demand_score > listings[j].demand_score
    \/ listings[i].demand_score = listings[j].demand_score /\ i > j

RECURSIVE ByDemand(_)
ByDemand(ids) ==
    IF ids = {} THEN <<>>
    ELSE LET m == CHOOSE i \in ids : \A j \in ids \ {i} : DemandBefore(i, j)
         IN <<m>> \o ByDemand(ids \ {m})

\* the values get_queryset tells apart in the sort parameter
SortOptions == {"relevance", "demand", "price_trend", "price_low", "price_high"}

\* row i comes before row j under the order_by of get_queryset; rows that
\* the order does not separate come in an order the database picks, here
\* either oldest or newest first
SortBefore(sort, newestFirst, i, j) ==
    LET tie == IF newestFirst THEN i > j ELSE i < j IN
    CASE sort = "demand" -> DemandBefore(i, j)
      [] sort = "price_trend" ->
           \/ listings[i].price_trend > listings[j].price_trend
           \/ listings[i].price_trend = listings[j].price_trend /\ i > j
      [] sort = "price_low" ->
           \/ listings[i].price < listings[j].price
           \/ listings[i].price = listings[j].price /\ tie
      [] sort = "price_high" ->
           \/ listings[i].price > listings[j].price
           \/ listings[i].price = listings[j].price /\ tie
      [] OTHER -> i > j

RECURSIVE Sorted(_, _, _)
Sorted(ids, sort, newestFirst) ==
    IF ids = {} THEN <<>>
    ELSE LET m == CHOOSE i \in ids :
                    \A j \in ids \ {i} : SortBefore(sort, newestFirst, i, j)
         IN <<m>> \o Sorted(ids \ {m}, sort, newestFirst)

\* ProductListingViewSet.get_queryset
GetQueryset(sort, newestFirst) == Sorted(Available, sort, newestFirst)

\* the rows personalized() keeps for a preference row
PersonalizedMatches(row) ==
    {i \in Available :
        /\ row.preferred_categories # {} =>
              listings[i].category \in row.preferred_categories
        /\ row.quality_preference # "" =>
              listings[i].quality_grade = row.quality_preference
        /\ (AmountTruthy(row.price_range_min)
              /\ AmountTruthy(row.price_range_max)) =>
              /\ listings[i].price >= row.price_range_min.v
              /\ listings[i].price <= row.price_range_max.v
        /\ row.preferred_location # <<>> =>
              IContains(listings[i].location, row.preferred_location)}

\* ProductListingViewSet.personalized
Personalized ==
    /\ Idle
    /\ prefs' = GetOrCreatePreference
    /\ LET products ==
             Take(ByDemand(PersonalizedMatches(GetOrCreatePreference)), 20)
       IN searchResp' =
             [endpoint |-> "personalized", req |-> NoRequest, status |-> 200,
              results |-> Serialize(products), total |-> Len(products)]
    /\ UNCHANGED <<today, listings, searchLog>>
    /\ UNCHANGED predictorVars
    /\ UNCHANGED viewVars

(***************************************************************************)
(* marketplace/ai_search.py: class PromptBasedSearchAI                     *)
(***************************************************************************)
\* str.split(): the maximal runs of non-blank characters
RECURSIVE Split(_)
Split(s) ==
    IF s = <<>> THEN <<>>
    ELSE IF s[1] = " " THEN Split(Tail(s))
    ELSE LET blanks == {i \in 1..Len(s) : s[i] = " "}
             end == IF blanks = {} THEN Len(s) + 1
                    ELSE CHOOSE i \in blanks : \A j \in blanks : i <= j
         IN <<SubSeq(s, 1, end - 1)>> \o Split(SubSeq(s, end, Len(s)))

PriceIndicators == << <<"c", "h", "e", "a", "p">>,
       <<"e", "x", "p", "e", "n", "s", "i", "v", "e">>,
       <<"a", "f", "f", "o", "r", "d", "a", "b", "l", "e">>,
       <<"b", "u", "d", "g", "e", "t">>,
       <<"p", "r", "e", "m", "i", "u", "m">> >>

LowIndicators == { <<"c", "h", "e", "a", "p">>,
      <<"a", "f", "f", "o", "r", "d", "a", "b", "l", "e">>,
      <<"b", "u", "d", "g", "e", "t">> }

\* a bug the claims are tested against: 'organic' maps to the grade ORGANIC
QualityTermsOrganic ==
    << [term |-> <<"p", "r", "e", "m", "i", "u", "m">>, quality |-> "PREMIUM"],
       [term |-> <<"o", "r", "g", "a", "n", "i", "c">>, quality |-> "ORGANIC"],
       [term |-> <<"h", "i", "g", "h", " ", "q", "u", "a", "l", "i", "t", "y">>, quality |-> "PREMIUM"],
       [term |-> <<"s", "t", "a", "n", "d", "a", "r", "d">>, quality |-> "STANDARD"],
       [term |-> <<"e", "c", "o", "n", "o", "m", "y">>, quality |-> "ECONOMY"],
       [term |-> <<"b", "u", "d", "g", "e", "t">>, quality |-> "ECONOMY"] >>

\* quality_terms, in the dict's insertion order
QualityTerms ==
    << [term |-> <<"p", "r", "e", "m", "i", "u", "m">>, quality |-> "PREMIUM"],
       [term |-> <<"o", "r", "g", "a", "n", "i", "c">>, quality |-> "PREMIUM"],
       [term |-> <<"h", "i", "g", "h", " ", "q", "u", "a", "l", "i", "t", "y">>, quality |-> "PREMIUM"],
       [term |-> <<"s", "t", "a", "n", "d", "a", "r", "d">>, quality |-> "STANDARD"],
       [term |-> <<"e", "c", "o", "n", "o", "m", "y">>, quality |-> "ECONOMY"],
       [term |-> <<"b", "u", "d", "g", "e", "t">>, quality |-> "ECONOMY"] >>

LocationIndicators == { <<"n", "e", "a", "r">>,
      <<"i", "n">>,
      <<"f", "r", "o", "m">>,
      <<"l", "o", "c", "a", "l">> }

StopWords == { <<"t", "h", "e">>,
      <<"a">>,
      <<"a", "n">>,
      <<"a", "n", "d">>,
      <<"o", "r">>,
      <<"b", "u", "t">>,
      <<"i", "n">>,
      <<"o", "n">>,
      <<"a", "t">>,
      <<"t", "o">>,
      <<"f", "o", "r">>,
      <<"o", "f">>,
      <<"w", "i", "t", "h">>,
      <<"b", "y">> }

\* the loop over price_indicators from entry i on: every indicator found
\* in the query assigns price_range again
RECURSIVE ScanPriceIndicators(_, _, _)
ScanPriceIndicators(query, i, price_range) ==
    IF i > Len(PriceIndicators) THEN price_range
    ELSE ScanPriceIndicators(query, i + 1,
            IF Contains(query, PriceIndicators[i])
            THEN (IF PriceIndicators[i] \in LowIndicators
                  THEN "low" ELSE "high")
            ELSE price_range)

\* a bug the claims are tested against: the price scan stops at the first
\* indicator found
ParsePriceRangeFirstWins(query) ==
    LET priced == {i \in 1..Len(PriceIndicators) :
                      Contains(query, PriceIndicators[i])}
        first == CHOOSE i \in priced : \A j \in priced : i <= j
    IN IF priced = {} THEN ""
       ELSE IF PriceIndicators[first] \in LowIndicators THEN "low" ELSE "high"

\* parsed['price_range'] after the loop over price_indicators; None is ""
ParsePriceRange(query) == ScanPriceIndicators(query, 1, "")

\* the loop over quality_terms from entry i on: the first term found in the
\* query assigns quality and breaks
RECURSIVE ScanQualityTerms(_, _)
ScanQualityTerms(query, i) ==
    IF i > Len(QualityTerms) THEN ""
    ELSE IF Contains(query, QualityTerms[i].term) THEN QualityTerms[i].quality
    ELSE ScanQualityTerms(query, i + 1)

\* a bug the claims are tested against: the quality scan has no break, so
\* the last term found decides
ParseQualityLastWins(query) ==
    LET graded == {i \in 1..Len(QualityTerms) :
                      Contains(query, QualityTerms[i].term)}
        last == CHOOSE i \in graded : \A j \in graded : j <= i
    IN IF graded = {} THEN "" ELSE QualityTerms[last].quality

\* parsed['quality'] after the loop over quality_terms; None is ""
ParseQuality(query) == ScanQualityTerms(query, 1)

\* _parse_natural_language; None is "" for price_range and quality and the
\* empty text for category and location
ParseNaturalLanguage(rawQuery) ==
    LET query == Strip(ToLower(rawQuery))
        wordList == Split(query)
        located == {i \in 1..Len(wordList) :
                      wordList[i] \in LocationIndicators /\ i + 1 <= Len(wordList)}
        firstLocated == CHOOSE i \in located : \A j \in located : i <= j
        keep(w) == w \notin StopWords /\ Len(w) > 2
    IN
    [keywords |-> SelectSeq(wordList, keep),
     category |-> <<>>,
     price_range |-> ParsePriceRange(query),
     quality |-> ParseQuality(query),
     location |-> IF located = {} THEN <<>> ELSE wordList[firstLocated + 1]]

\* ProductCategory.keywords of the rows of ProductCategory
CategoryKeywords == << {<<"c", "e", "r", "e", "a", "l">>}, {<<"g", "r", "e", "e", "n", "s">>} >>

\* quality_grade.lower() and unit.lower() (every listing is sold by the kg)
QualityWord(q) ==
    CASE q = "PREMIUM" -> <<"p", "r", "e", "m", "i", "u", "m">>
      [] q = "STANDARD" -> <<"s", "t", "a", "n", "d", "a", "r", "d">>
      [] q = "ECONOMY" -> <<"e", "c", "o", "n", "o", "m", "y">>
      [] OTHER -> <<"o", "r", "g", "a", "n", "i", "c">>

Range(seq) == {seq[k] : k \in 1..Len(seq)}

\* ProductListing._generate_search_keywords, which save() stores
GenerateSearchKeywords(l) ==
    Range(Split(ToLower(l.title \o <<" ">> \o l.description \o <<" ">>
                          \o CategoryName[l.category])))
      \cup {QualityWord(l.quality_grade), <<"k", "g">>}
      \cup Range(Split(ToLower(l.location)))

\* the words of title and description, as the search vector holds them
TextWords(l) == Split(ToLower(l.title)) \o Split(ToLower(l.description))

\* filter(search=SearchQuery(...)): every keyword occurs in the vector
\* SearchVector('title', 'description', 'search_keywords')
SearchMatches(l, keywords) ==
    \A k \in 1..Len(keywords) :
        keywords[k] \in Range(TextWords(l)) \cup GenerateSearchKeywords(l)

\* SearchRank: how often the keywords occur in the vector
SearchRank(l, keywords) ==
    Cardinality({<<k, j>> \in (1..Len(keywords)) \X (1..Len(TextWords(l))) :
                    TextWords(l)[j] = keywords[k]})
      + Cardinality({k \in 1..Len(keywords) :
                        keywords[k] \in GenerateSearchKeywords(l)})

\* order_by('-rank'); rows of equal rank come in an order the database
\* picks, here either oldest or newest first
RankBefore(i, j, keywords, newestFirst) ==
    LET ri == SearchRank(listings[i], keywords)
        rj == SearchRank(listings[j], keywords)
    IN ri > rj \/ (ri = rj /\ IF newestFirst THEN i > j ELSE i < j)

RECURSIVE ByRank(_, _, _)
ByRank(ids, keywords, newestFirst) ==
    IF ids = {} THEN <<>>
    ELSE LET m == CHOOSE i \in ids :
                    \A j \in ids \ {i} : RankBefore(i, j, keywords, newestFirst)
         IN <<m>> \o ByRank(ids \ {m}, keywords, newestFirst)

\* keeps the order of a queryset while filtering it
RECURSIVE FilterSeq(_, _)
FilterSeq(seq, keep) ==
    IF seq = <<>> THEN <<>>
    ELSE IF Head(seq) \in keep THEN <<Head(seq)>> \o FilterSeq(Tail(seq), keep)
    ELSE FilterSeq(Tail(seq), keep)

\* a bug the claims are tested against: the ranker reads the price range of
\* the intent and keeps the listings up to 10.00 (low) or above it (high)
SemanticSearchOverPriced(queryset, parsed, newestFirst) ==
    LET ranked ==
            IF parsed.keywords # <<>>
            THEN ByRank({i \in queryset :
                            SearchMatches(listings[i], parsed.keywords)},
                        parsed.keywords, newestFirst)
            ELSE NewestFirst(queryset)
    IN FilterSeq(ranked,
          {i \in 1..Len(listings) :
              /\ parsed.price_range = "low" => listings[i].price <= 1000
              /\ parsed.price_range = "high" => listings[i].price > 1000
              /\ parsed.category # <<>> =>
                    \/ IContains(CategoryName[listings[i].category],
                                 parsed.category)
                    \/ parsed.category \in CategoryKeywords[listings[i].category]
              /\ parsed.quality # "" =>
                    listings[i].quality_grade = parsed.quality
              /\ parsed.location # <<>> =>
                    IContains(listings[i].location, parsed.location)})

\* _semantic_search over a queryset, given as the set of its rows
SemanticSearchOver(queryset, parsed, newestFirst) ==
    LET keyworded ==
            IF parsed.keywords # <<>>
            THEN ByRank({i \in queryset :
                            SearchMatches(listings[i], parsed.keywords)},
                        parsed.keywords, newestFirst)
            ELSE NewestFirst(queryset)
        keep ==
            {i \in 1..Len(listings) :
                /\ parsed.category # <<>> =>
                      \/ IContains(CategoryName[listings[i].category],
                                   parsed.category)
                      \/ parsed.category \in CategoryKeywords[listings[i].category]
                /\ parsed.quality # "" =>
                      listings[i].quality_grade = parsed.quality
                /\ parsed.location # <<>> =>
                      IContains(listings[i].location, parsed.location)}
    IN FilterSeq(keyworded, keep)

\* _semantic_search as search_products calls it: over the available rows
SemanticSearch(parsed, newestFirst) ==
    SemanticSearchOver(Available, parsed, newestFirst)

\* _apply_filters: the price bounds are read under min_price and max_price
ApplyFilters(ids, req) ==
    FilterSeq(ids,
        {i \in 1..Len(listings) :
            /\ req.category.t # "absent" =>
                  listings[i].category = req.category.n
            /\ req.min_price.t # "absent" =>
                  listings[i].price >= req.min_price.n
            /\ req.max_price.t # "absent" =>
                  listings[i].price <= req.max_price.n
            /\ req.quality # "" => listings[i].quality_grade = req.quality
            /\ req.location # <<>> =>
                  IContains(listings[i].location, req.location)})

\* names the module ai_search.py can refer to: models is not among them
AiSearchNames ==
    {"pd", "np", "joblib", "os", "settings", "Q", "F", "Value", "FloatField",
     "Concat", "SearchQuery", "SearchRank", "SearchVector", "ProductListing",
     "PricePrediction", "UserPreference", "SearchQueryLog", "logging",
     "datetime", "timedelta", "RandomForestRegressor", "TfidfVectorizer",
     "cosine_similarity", "requests", "json", "logger", "Dict", "List",
     "Optional", "Tuple"}

\* _apply_personalization: raises NameError when it reaches models.Case
ApplyPersonalization(ids) ==
    IF ~prefs.exists THEN [raised |-> FALSE, ids |-> ids]
    ELSE IF prefs.preferred_categories # {} /\ "models" \notin AiSearchNames
    THEN [raised |-> TRUE, ids |-> <<>>]
    ELSE [raised |-> FALSE,
          ids |-> FilterSeq(ids,
            {i \in 1..Len(listings) :
                /\ (AmountTruthy(prefs.price_range_min)
                      /\ AmountTruthy(prefs.price_range_max)) =>
                      /\ listings[i].price >= prefs.price_range_min.v
                      /\ listings[i].price <= prefs.price_range_max.v
                /\ prefs.quality_preference # "" =>
                      listings[i].quality_grade = prefs.quality_preference})]

\* what the regression model answers for one feature vector: a price in
\* cents, or it raises
EstimatorOutcomes ==
    {[raised |-> TRUE, value |-> 0], [raised |-> FALSE, value |-> -500],
     [raised |-> FALSE, value |-> 4000]}

\* _predict_price: the model's answer floored at 0.1, the listing's own
\* price when the model raises
PredictPrice(l, est) == IF est.raised THEN l.price ELSE Max(est.value, 10)

\* _get_market_insights: the demand level, the score in hundredths
MarketInsightsDemandLevel(demand_score) ==
    IF demand_score > 70 THEN "High"
    ELSE IF demand_score < 30 THEN "Low"
    ELSE "Medium"

\* _get_market_insights: the best time to buy
MarketInsightsBestTime(demand_score) ==
    IF demand_score > 70 THEN "Soon (prices may rise)"
    ELSE IF demand_score < 30 THEN "Good time to buy"
    ELSE "Now"

\* _enhance_with_predictions
EnhanceWithPredictions(ids, est) ==
    [k \in 1..Len(ids) |->
        [id |-> listings[ids[k]].id,
         current_price |-> listings[ids[k]].price,
         predicted_price |-> PredictPrice(listings[ids[k]], est),
         demand_score |-> listings[ids[k]].demand_score,
         quality_grade |-> listings[ids[k]].quality_grade,
         location |-> listings[ids[k]].location,
         demand_level |->
             MarketInsightsDemandLevel(listings[ids[k]].demand_score),
         best_time_to_buy |->
             MarketInsightsBestTime(listings[ids[k]].demand_score)]]

\* search_products(query, user, filters, limit): the dict it returns, or a
\* raise (status 500 stands for the exception reaching the caller)
SearchProductsOutcome(req, withUser, est, newestFirst) ==
    LET parsed == ParseNaturalLanguage(req.q)
        searched == SemanticSearch(parsed, newestFirst)
        hasFilters == req.category.t # "absent" \/ req.price_min.t # "absent"
                        \/ req.price_max.t # "absent"
                        \/ req.min_price.t # "absent"
                        \/ req.max_price.t # "absent" \/ req.quality # ""
                        \/ req.location # <<>>
        limit == GetOr(req.limit, Num(20)).n
        filtered == IF hasFilters THEN ApplyFilters(searched, req) ELSE searched
        personal == IF withUser THEN ApplyPersonalization(filtered)
                    ELSE [raised |-> FALSE, ids |-> filtered]
    IN
    IF personal.raised \/ limit < 0
    THEN SearchError("search_products", req, 500)
    ELSE [endpoint |-> "search_products", req |-> req, status |-> 200,
          results |-> EnhanceWithPredictions(Take(personal.ids, limit), est),
          total |-> Len(personal.ids), parsed_query |-> parsed]

\* search_products; _log_search_query runs first and swallows its own
\* failure
SearchProducts(req, withUser, est, newestFirst, dbFails) ==
    /\ Idle
    /\ LET logged == LogCreate({"user", "query", "results_count",
                                "filters_used"}, 0, dbFails)
       IN /\ Len(logged.log) <= MaxLog
          /\ searchLog' = logged.log
    /\ searchResp' = SearchProductsOutcome(req, withUser, est, newestFirst)
    /\ UNCHANGED <<today, listings, prefs>>
    /\ UNCHANGED predictorVars
    /\ UNCHANGED viewVars

NoArgs == [crop_type |-> "", region |-> "", days_ahead |-> 0, day |-> 0,
           after |-> 0]

Init ==
    /\ today = 1
    /\ store = <<>>
    /\ pc = [t \in Threads |-> "idle"]
    /\ args = [t \in Threads |-> NoArgs]
    /\ looked = [t \in Threads |-> [outcome |-> "none", row |-> 0]]
    /\ hist = <<>>
    /\ confidences = <<>>
    /\ apiCalls = {}
    /\ viewHist = <<>>
    /\ bulkResp = NoBulkResp
    /\ listings = <<>>
    /\ searchLog = <<>>
    /\ searchResp = NoSearchResp
    /\ prefs = NoPreference

Next ==
    \/ \E t \in Threads : \E i \in PredictInputs :
          PredictLookup(t, i[1], i[2], i[3])
    \/ \E t \in Threads : PredictReturn(t)
    \/ NextDay

Spec == Init /\ [][Next]_vars

\* the single-prediction endpoint
NextView ==
    \/ \E req \in PredictionRequests, global \in GlobalOutcomes,
          api \in ApiOutcomes, variation \in Variations :
          PricePredictionPost(req, global, api, variation)
    \/ NextDay

SpecView == Init /\ [][NextView]_vars

\* the bulk endpoint
NextBulk ==
    \/ \E predictions \in BulkRequests, variation \in Variations :
          \E apis \in [1..Len(predictions) -> ApiOutcomes] :
             BulkPricePredictionPost(predictions, apis, variation)
    \/ NextDay

SpecBulk == Init /\ [][NextBulk]_vars

(***************************************************************************)
(* The marketplace search: listings, preferences and the four calls that   *)
(* return listings                                                         *)
(***************************************************************************)
Request(q, limit) == [NoRequest EXCEPT !.q = q, !.limit = limit]

GetRequests ==
    { Request(<<"m", "a", "i">>, Absent),
      [Request(<<>>, Str(<<"1">>)) EXCEPT !.price_max = Str(<<"1", "0", ".", "0", "0">>)],
      [Request(<<>>, Absent) EXCEPT !.category = Str(<<"1">>),
                                     !.price_min = Str(<<"a", "b", "c">>)] }

PostRequests ==
    { Request(<<>>, Absent),
      [Request(<<"m", "a", "i">>, Absent) EXCEPT !.price_max = Num(0)],
      [Request(<<"m", "a", "i">>, Absent) EXCEPT !.quality = "PREMIUM"],
      [Request(<<"m", "a", "i">>, Null) EXCEPT !.price_max = Num(1000)] }

ProductsRequests ==
    { Request(<<"m", "a", "i", "z", "e", " ", "n", "e", "a", "r", " ", "n", "a", "i", "r", "o", "b", "i">>, Absent),
      [Request(<<"m", "a", "i", "z", "e">>, Num(1)) EXCEPT !.max_price = Num(1000)],
      [Request(<<"M", "a", "i", "z", "e">>, Absent) EXCEPT !.price_max = Num(400)] }

PreferenceRequests ==
    { PreferenceData({"price_range_min", "price_range_max"}, {}, "",
                     Amount(1000), Amount(2000), <<>>),
      PreferenceData({"preferred_categories", "preferred_location"}, {1}, "",
                     NoAmount, NoAmount, <<>>) }

NextSearch ==
    \/ \E status \in StatusChoices : CreateListing(status)
    \/ \E i \in 1..MaxListings, status \in StatusChoices : ChangeStatus(i, status)
    \/ CreateUserPreferences
    \/ PreferenceGet
    \/ \E data \in PreferenceRequests : PreferencePost(data)
    \/ \E req \in GetRequests, dbFails \in BOOLEAN : SearchGet(req, dbFails)
    \/ \E req \in PostRequests, dbFails \in BOOLEAN : SearchPost(req, dbFails)
    \/ Personalized
    \/ \E req \in ProductsRequests, withUser \in BOOLEAN,
          est \in EstimatorOutcomes, newestFirst \in BOOLEAN :
            SearchProducts(req, withUser, est, newestFirst, FALSE)
    \/ SendResponse

SpecSearch == Init /\ [][NextSearch]_vars

(***************************************************************************)
(* Claims about predict_market_prices                                      *)
(***************************************************************************)
SameKeyDay(x, y) ==
    /\ x.crop_type = y.crop_type
    /\ x.region = y.region
    /\ x.days_ahead = y.days_ahead
    /\ x.day = y.day

\* the returned calls with the key and day of call i
Peers(i) == {k \in 1..Len(hist) : SameKeyDay(hist[k], hist[i])}

\* call i ran alone: every other call with its key and day began after it
\* returned or returned before it began
RanAlone(i) ==
    /\ \A k \in Peers(i) : k > i => hist[k].after >= i
    /\ \A k \in Peers(i) : k < i => hist[i].after >= k
    /\ \A t \in InFlight : SameKeyDay(args[t], hist[i]) => args[t].after >= i

HasPrice(r) == "predicted_price" \in r.keys

\* C1 (as claimed): of two calls with one key on one day, made one after the
\* other, the first returns source = new_prediction, the second returns
\* source = cached and the same predicted_price.
C1_Original ==
    \A i, j \in 1..Len(hist) :
        (/\ i < j
         /\ Peers(i) \cap (1..j) = {i, j}
         /\ RanAlone(i) /\ RanAlone(j))
        => /\ hist[i].result.source = "new_prediction"
           /\ hist[j].result.source = "cached"
           /\ HasPrice(hist[i].result) /\ HasPrice(hist[j].result)
           /\ hist[j].result.predicted_price = hist[i].result.predicted_price

C2_AtMostOne ==
    \A i, j \in 1..Len(store) :
        (/\ store[i].crop_type = store[j].crop_type
         /\ store[i].region = store[j].region
         /\ store[i].prediction_horizon = store[j].prediction_horizon
         /\ store[i].prediction_date = store[j].prediction_date) => i = j

C2_HitKeeps ==
    \A t \in Threads :
        (pc[t] = "looked" /\ looked[t].outcome = "hit" /\ pc'[t] = "idle")
        => store' = store

C4_Original ==
    \A i \in 1..Len(hist) :
        HasPrice(hist[i].result) /\ hist[i].result.predicted_price > 0

\* C6 (as claimed): a cached result comes from a row of the same key and
\* day, and the first request for a key on a day stores a row and returns
\* it as source = new_prediction.
C6_Original ==
    \A i \in 1..Len(hist) :
        /\ hist[i].result.source = "cached" =>
              /\ hist[i].row \in 1..Len(store)
              /\ store[hist[i].row].crop_type = hist[i].crop_type
              /\ store[hist[i].row].region = hist[i].region
              /\ store[hist[i].row].prediction_horizon = hist[i].days_ahead
              /\ store[hist[i].row].prediction_date = hist[i].day
        /\ (Peers(i) \cap (1..i) = {i} /\ RanAlone(i)) =>
              /\ hist[i].result.source = "new_prediction"
              /\ hist[i].created

\* C7 (as claimed): when two calls with one key on one day overlap and
\* neither finds a stored row, both return a prediction and exactly one
\* row for the key remains.
C7_Original ==
    \A i, j \in 1..Len(hist) :
        (/\ i < j
         /\ SameKeyDay(hist[i], hist[j])
         /\ hist[j].after < i
         /\ hist[i].lookup # "hit" /\ hist[j].lookup # "hit")
        => /\ HasPrice(hist[i].result) /\ HasPrice(hist[j].result)
           /\ Cardinality({k \in 1..Len(store) :
                  /\ store[k].crop_type = hist[i].crop_type
                  /\ store[k].region = hist[i].region
                  /\ store[k].prediction_horizon = hist[i].days_ahead
                  /\ store[k].prediction_date = hist[i].day}) = 1

(***************************************************************************)
(* Claims about the prediction endpoints                                   *)
(***************************************************************************)
\* C3 (as claimed): when a valid request's predictor call raises or reports
\* failure, the caller still gets a successful response tagged
\* prediction_type = fallback.
C3_Original ==
    \A i \in 1..Len(viewHist) :
        (/\ PricePredictionRequestValid(viewHist[i].req)
         /\ viewHist[i].api \in {"fail", "raise"})
        => /\ viewHist[i].response.status = 200
           /\ viewHist[i].response.success
           /\ viewHist[i].response.prediction_type = "fallback"
           /\ viewHist[i].response.has_price

\* C5 (as claimed): of two predictions for one commodity and region on one
\* day, the one with the shorter horizon has at least the confidence of the
\* other.
C5_Original ==
    \A i, j \in 1..Len(viewHist) :
        (/\ viewHist[i].response.status = 200
         /\ viewHist[j].response.status = 200
         /\ Capitalize(viewHist[i].req.cropType)
              = Capitalize(viewHist[j].req.cropType)
         /\ viewHist[i].day = viewHist[j].day
         /\ viewHist[i].req.prediction_days < viewHist[j].req.prediction_days)
        => viewHist[i].response.confidence >= viewHist[j].response.confidence

\* C8 (as claimed): a request with a horizon outside 1..365 or an
\* unsupported commodity is answered with a client error and never reaches
\* the predictor.
C8_Original ==
    /\ \A c \in apiCalls : c.cropType \in ValidCrops /\ c.days \in 1..365
    /\ \A i \in 1..Len(viewHist) :
          ~PricePredictionRequestValid(viewHist[i].req)
          => viewHist[i].response.status = 400 /\ ~viewHist[i].invoked

\* the rows of the table that the response of the call carries
Returned == {listings[searchResp.results[k].id] :
                k \in 1..Len(searchResp.results)}

\* C9: every listing that a search call or a personalized-recommendation
\* call returns has status AVAILABLE in the table at the time of the call,
\* whatever creations and status changes came before; SOLD, EXPIRED and
\* PENDING listings never appear.
C9_Theorem ==
    \A r \in Returned : r.status = "AVAILABLE"

\* a call returns listings while the table also holds a listing whose status
\* was changed away from AVAILABLE
C9_Witness ==
    /\ searchResp.status = 200
    /\ Returned # {}
    /\ \E i \in 1..Len(listings) :
          listings[i].status \in {"SOLD", "EXPIRED", "PENDING"}

\* the filters a request supplies, as conditions on a listing
SuppliedFiltersHold(req, r) ==
    /\ req.category.t \in {"str", "num"} =>
          IF IntOf(req.category).ok
          THEN r.category = IntOf(req.category).value
          ELSE CategoryName[r.category] = req.category.s
    /\ (req.price_min.t \in {"str", "num"} /\ FloatOf(req.price_min).ok) =>
          FloatOf(req.price_min).value <= r.price
    /\ (req.price_max.t \in {"str", "num"} /\ FloatOf(req.price_max).ok) =>
          r.price <= FloatOf(req.price_max).value
    /\ req.quality # "" => r.quality_grade = req.quality
    /\ req.location # <<>> => IContains(r.location, req.location)

\* C10 (as claimed): every listing a search call returns satisfies all the
\* explicit filters the call supplied: category, price_min <= price,
\* price <= price_max, quality and location.
C10_Original ==
    \A r \in Returned : SuppliedFiltersHold(searchResp.req, r)

(***************************************************************************)
(* Searches with an explicit category filter                               *)
(***************************************************************************)
CategoryGetRequests ==
    { [Request(<<"m", "a", "i">>, Absent) EXCEPT !.category = Str(<<"1">>)],
      [Request(<<>>, Str(<<"1">>)) EXCEPT !.category = Str(<<"G", "r", "a", "i", "n", "s">>)] }

CategoryPostRequests ==
    { [Request(<<"m", "a", "i">>, Absent) EXCEPT !.category = Str(<<"G", "r", "a", "i", "n", "s">>)],
      [Request(<<"m", "a", "i">>, Null) EXCEPT !.category = Str(<<"G", "r", "a", "i", "n", "s">>)] }

CategoryProductsRequests ==
    { [Request(<<"m", "a", "i", "z", "e">>, Absent) EXCEPT !.category = Num(1)],
      [Request(<<"d", "r", "y", " ", "m", "a", "i", "z", "e">>, Num(1)) EXCEPT !.category = Num(2)] }

NextCategory ==
    \/ \E status \in StatusChoices : CreateListing(status)
    \/ \E i \in 1..MaxListings, status \in StatusChoices : ChangeStatus(i, status)
    \/ \E req \in CategoryGetRequests : SearchGet(req, FALSE)
    \/ \E req \in CategoryPostRequests : SearchPost(req, FALSE)
    \/ \E req \in CategoryProductsRequests, est \in EstimatorOutcomes,
          newestFirst \in BOOLEAN :
            SearchProducts(req, FALSE, est, newestFirst, FALSE)
    \/ SendResponse

SpecCategory == Init /\ [][NextCategory]_vars

\* the explicit category filter of a request, as a condition on a row
CategoryHolds(req, l) ==
    IF IntOf(req.category).ok
    THEN l.category = IntOf(req.category).value
    ELSE CategoryName[l.category] = req.category.s

\* the request without its category filter and without a limit
Uncategorised(req, limit) == [req EXCEPT !.category = Absent, !.limit = limit]

\* ranking first: what the call ranks when the category filter is left out,
\* narrowed to the category afterwards
RankedThenFiltered(endpoint, req) ==
    LET ranked ==
          CASE endpoint = "get" ->
                 GetMatches(Uncategorised(req, Absent))
            [] endpoint = "post" ->
                 Range(SearchPostOutcome(Uncategorised(req, Null), FALSE)
                         .resp.results)
            [] OTHER -> {}
    IN IF endpoint = "post"
       THEN {r.id : r \in {x \in ranked : CategoryHolds(req, listings[x.id])}}
       ELSE {i \in ranked : CategoryHolds(req, listings[i])}

\* C11 (as claimed): for a search with an explicit category filter, ranking
\* the listings and then filtering by the category yields the same set of
\* listings as filtering by the category first and then ranking, and that
\* set is what the call returns.
C11_Original ==
    /\ \A req \in CategoryProductsRequests, newestFirst \in BOOLEAN :
          LET parsed == ParseNaturalLanguage(req.q) IN
          Range(ApplyFilters(SemanticSearch(parsed, newestFirst), req))
            = Range(SemanticSearchOver(
                      {i \in Available : CategoryHolds(req, listings[i])},
                      parsed, newestFirst))
    /\ (searchResp.endpoint \in {"get", "post"}
          /\ Truthy(searchResp.req.category)) =>
          /\ searchResp.status = 200
          /\ {r.id : r \in Returned}
               = RankedThenFiltered(searchResp.endpoint, searchResp.req)

(***************************************************************************)
(* Searches over a catalogue larger than the default limit                 *)
(***************************************************************************)
LimitGetRequests == { Request(<<>>, Absent), Request(<<>>, Str(<<"2">>)) }

LimitPostRequests == { Request(<<"a">>, Absent), Request(<<"a">>, Num(1)) }

LimitProductsRequests == { Request(<<>>, Absent), Request(<<>>, Num(2)) }

NextLimit ==
    \/ CreateListingBounded("AVAILABLE", MaxCatalogue)
    \/ \E req \in LimitGetRequests : SearchGet(req, FALSE)
    \/ \E req \in LimitPostRequests : SearchPost(req, FALSE)
    \/ \E req \in LimitProductsRequests, est \in EstimatorOutcomes :
            SearchProducts(req, FALSE, est, TRUE, FALSE)
    \/ SendResponse

SpecLimit == Init /\ [][NextLimit]_vars

\* the limit a search request asks for: 20 when it names none, -1 when the
\* value is no integer
LimitOf(req) ==
    IF req.limit.t = "absent" THEN 20
    ELSE IF IntOf(req.limit).ok THEN IntOf(req.limit).value ELSE -1

\* C12: a search response never carries more listings than the limit of the
\* request, which is 20 when the request names none and otherwise a number
\* the caller picks in 1..100.
C12_Theorem ==
    (searchResp.endpoint \in {"get", "post", "search_products"}
       /\ LimitOf(searchResp.req) \in 1..100) =>
       Len(searchResp.results) <= LimitOf(searchResp.req)

\* more than 20 listings match a request without a limit and 20 come back
C12_Witness ==
    /\ searchResp.endpoint \in {"get", "post", "search_products"}
    /\ searchResp.req.limit.t = "absent"
    /\ Cardinality(Available) > 20
    /\ Len(searchResp.results) = 20

\* a request carries a query or at least one filter
HasQueryOrFilter(req) ==
    \/ Strip(req.q) # <<>>
    \/ \E v \in {req.category, req.price_min, req.price_max, req.min_price,
                 req.max_price} : v.t # "absent"
    \/ req.quality # ""
    \/ req.location # <<>>

\* a step in which a search call answers with success
SearchAnswered ==
    /\ Idle
    /\ searchResp'.endpoint \in {"get", "post", "search_products"}
    /\ searchResp'.status = 200

\* C13 (as claimed): every search call that has a non-empty query or at
\* least one filter writes exactly one search log entry, and the
\* results_count of that entry is the number of listings the call returned.
C13_Original ==
    [][(SearchAnswered /\ HasQueryOrFilter(searchResp'.req)) =>
          searchLog' = Append(searchLog,
                              [results_count |-> Len(searchResp'.results)])]_vars

\* C14 (as claimed): when the write of the search log entry fails, the
\* search call still completes and answers what it answers when the write
\* succeeds; a logging failure never turns a search into an error.
C14_Original ==
    [][/\ \A req \in GetRequests :
            SearchGet(req, TRUE) =>
                searchResp' = SearchGetOutcome(req, FALSE).resp
       /\ \A req \in PostRequests :
            SearchPost(req, TRUE) =>
                searchResp' = SearchPostOutcome(req, FALSE).resp]_vars

(***************************************************************************)
(* Preferences and the two places that personalize with them               *)
(***************************************************************************)
PersonalRequests ==
    { PreferenceData({"price_range_min", "price_range_max"}, {}, "",
                     Amount(1000), Amount(2000), <<>>),
      PreferenceData({"price_range_min", "price_range_max"}, {}, "",
                     Amount(0), Amount(2000), <<>>),
      PreferenceData({"price_range_min", "price_range_max"}, {}, "",
                     Amount(3000), Amount(2000), <<>>),
      PreferenceData({"price_range_min"}, {}, "", Amount(3000), NoAmount,
                     <<>>),
      PreferenceData({"preferred_location"}, {}, "", NoAmount, NoAmount,
                     <<"K", "i", "s", "u", "m", "u">>),
      PreferenceData({"preferred_location"}, {}, "", NoAmount, NoAmount,
                     <<>>),
      PreferenceData({"preferred_categories", "quality_preference"}, {2},
                     "ORGANIC", NoAmount, NoAmount, <<>>) }

\* the search a signed-in buyer runs through search_products
PersonalSearch == Request(<<>>, Absent)

NextPersonal ==
    \/ CreateListingBounded("AVAILABLE", MaxShelf)
    \/ CreateUserPreferences
    \/ PreferenceGet
    \/ \E data \in PersonalRequests : PreferencePost(data)
    \/ Personalized
    \/ \E est \in EstimatorOutcomes :
            SearchProducts(PersonalSearch, TRUE, est, TRUE, FALSE)
    \/ SendResponse

SpecPersonal == Init /\ [][NextPersonal]_vars

\* a listing satisfies every preference that a profile has set
PreferencesHold(row, l) ==
    /\ row.preferred_categories # {} => l.category \in row.preferred_categories
    /\ row.quality_preference # "" => l.quality_grade = row.quality_preference
    /\ (~row.price_range_min.null /\ ~row.price_range_max.null) =>
          /\ row.price_range_min.v <= l.price
          /\ l.price <= row.price_range_max.v
    /\ row.preferred_location # <<>> =>
          IContains(l.location, row.preferred_location)

\* a step in which a buyer with a stored profile is answered by one of the
\* personalizing calls
PersonalizedAnswered ==
    /\ Idle
    /\ prefs.exists
    /\ searchResp'.status = 200
    /\ \/ searchResp'.endpoint = "personalized"
       \/ \E est \in EstimatorOutcomes :
            SearchProducts(PersonalSearch, TRUE, est, TRUE, FALSE)

\* C15 (as claimed): every listing that personalize returns satisfies all
\* the preferences the buyer's profile has set at once (category, quality,
\* price range when both bounds are set, location); a listing that fails
\* one of them is absent from the result.
C15_Original ==
    [][PersonalizedAnswered =>
          \A k \in 1..Len(searchResp'.results) :
              PreferencesHold(prefs, listings[searchResp'.results[k].id])]_vars

\* a profile whose only preference is a price range with both bounds
OnlyPriceRange(row) ==
    /\ row.exists
    /\ row.preferred_categories = {}
    /\ row.quality_preference = ""
    /\ row.preferred_location = <<>>
    /\ ~row.price_range_min.null
    /\ ~row.price_range_max.null
    /\ row.price_range_min.v <= row.price_range_max.v

\* C16 (as claimed): for a profile with both price bounds set (min <= max,
\* a minimum of 0 included) and no other preference, personalize returns
\* exactly the input listings whose price lies within the bounds; of
\* listings priced 5, 15 and 25 a range 10..20 keeps only the one at 15.
C16_Original ==
    [][(PersonalizedAnswered /\ OnlyPriceRange(prefs)) =>
          {searchResp'.results[k].id : k \in 1..Len(searchResp'.results)}
            = {i \in Available :
                  /\ prefs.price_range_min.v <= listings[i].price
                  /\ listings[i].price <= prefs.price_range_max.v}]_vars

\* a profile with no preference set
NoPreferenceSet(row) ==
    /\ row.preferred_categories = {}
    /\ row.quality_preference = ""
    /\ row.price_range_min.null
    /\ row.price_range_max.null
    /\ row.preferred_location = <<>>

\* the ids of the listings in the response of a step, in order
AnsweredIds == [k \in 1..Len(searchResp'.results) |-> searchResp'.results[k].id]

\* C17 (as claimed): for a profile with no preference set, personalize
\* returns its ranked input unchanged: the same listings in the same order.
C17_Original ==
    [][(Idle /\ searchResp'.status = 200
          /\ NoPreferenceSet(GetOrCreatePreference)) =>
          /\ searchResp'.endpoint = "personalized" =>
                \A sort \in SortOptions : \E newestFirst \in BOOLEAN :
                    AnsweredIds = GetQueryset(sort, newestFirst)
          /\ (\E est \in EstimatorOutcomes :
                SearchProducts(PersonalSearch, TRUE, est, TRUE, FALSE)) =>
                AnsweredIds
                  = SemanticSearch(ParseNaturalLanguage(PersonalSearch.q), TRUE)
      ]_vars

\* C18 (as claimed): after any sequence of preference reads and writes,
\* partial updates of one bound included, a stored profile that has both
\* price_range_min and price_range_max satisfies price_range_min <=
\* price_range_max; a write that would break this is rejected and leaves the
\* profile unchanged.
C18_Original ==
    (prefs.exists /\ ~prefs.price_range_min.null /\ ~prefs.price_range_max.null)
       => prefs.price_range_min.v <= prefs.price_range_max.v

(***************************************************************************)
(* Free-text queries through the parser                                    *)
(***************************************************************************)
CheapOrganicQuery ==
    <<"c", "h", "e", "a", "p", " ", "o", "r", "g", "a", "n", "i", "c", " ", "t", "o", "m", "a", "t", "o", "e", "s", " ", "n", "e", "a", "r", " ", "n", "a", "i", "r", "o", "b", "i">>

ParseQueries ==
    { CheapOrganicQuery,
      <<"P", "r", "e", "m", "i", "u", "m", " ", "m", "a", "i", "z", "e", " ", "i", "n", " ", "N", "a", "i", "r", "o", "b", "i", " ">>,
      <<"t", "h", "e", " ", "a", "n", " ", "o", "f">>,
      <<"e", "x", "p", "e", "n", "s", "i", "v", "e", " ", "b", "u", "d", "g", "e", "t", " ", "b", "e", "a", "n", "s">>,
      <<"b", "u", "d", "g", "e", "t", " ", "P", "r", "e", "m", "i", "u", "m", " ", "r", "i", "c", "e">>,
      <<"O", "r", "g", "a", "n", "i", "c">> }

NextParse ==
    \/ \E status \in StatusChoices : CreateListing(status)
    \/ \E i \in 1..MaxListings, status \in StatusChoices : ChangeStatus(i, status)
    \/ \E q \in ParseQueries, est \in EstimatorOutcomes :
            SearchProducts(Request(q, Absent), FALSE, est, TRUE, FALSE)
    \/ SendResponse

SpecParse == Init /\ [][NextParse]_vars

\* C19 (as claimed): parsing "cheap organic tomatoes near nairobi" yields
\* the keywords exactly ["tomatoes"], the price band hint LOW, the quality
\* hint PREMIUM and the location hint "nairobi".
C19_Original ==
    (searchResp.endpoint = "search_products" /\ searchResp.status = 200
       /\ searchResp.req.q = CheapOrganicQuery) =>
       /\ searchResp.parsed_query.keywords = << <<"t", "o", "m", "a", "t", "o", "e", "s">> >>
       /\ searchResp.parsed_query.price_range = "low"
       /\ searchResp.parsed_query.quality = "PREMIUM"
       /\ searchResp.parsed_query.location = <<"n", "a", "i", "r", "o", "b", "i">>

(***************************************************************************)
(* Market insights in the answers of the calls that return listings        *)
(***************************************************************************)
NextInsight ==
    \/ CreateListingBounded("AVAILABLE", MaxShelf)
    \/ \E i \in 1..MaxShelf, status \in StatusChoices : ChangeStatus(i, status)
    \/ SearchGet(Request(<<>>, Absent), FALSE)
    \/ Personalized
    \/ \E est \in EstimatorOutcomes :
            SearchProducts(PersonalSearch, FALSE, est, TRUE, FALSE)
    \/ SendResponse

SpecInsight == Init /\ [][NextInsight]_vars

\* the demand level the claim gives for a score in hundredths
ClaimedDemandLevel(demand_score) ==
    IF demand_score = NoScore THEN "UNKNOWN"
    ELSE IF demand_score > 70 THEN "HIGH"
    ELSE IF demand_score > 40 THEN "MEDIUM"
    ELSE "LOW"

\* a label without regard to the case of its letters
UpperLabel(label) ==
    CASE label = "High" -> "HIGH"
      [] label = "Medium" -> "MEDIUM"
      [] label = "Low" -> "LOW"
      [] OTHER -> label

\* C20 (as claimed): in every place that produces market insights, the
\* demand level of a listing is a function of its demand_score alone: HIGH
\* above 0.7, MEDIUM above 0.4 up to 0.7, LOW up to 0.4, UNKNOWN when the
\* score is absent; the same listing always gets the same level.
C20_Original ==
    \A k \in 1..Len(searchResp.results) :
        UpperLabel(searchResp.results[k].demand_level)
          = ClaimedDemandLevel(listings[searchResp.results[k].id].demand_score)

(***************************************************************************)
(* Searches whose price bounds are not numbers                             *)
(***************************************************************************)
BoundsGetRequests ==
    { [Request(<<>>, Absent) EXCEPT !.price_min = Str(<<"a", "b", "c">>)],
      [Request(<<"m", "a", "i">>, Absent) EXCEPT !.price_max = Str(<<"1", "o">>)],
      [Request(<<>>, Absent) EXCEPT !.price_max = Str(<<"1", "0", ".", "0", "0">>)] }

BoundsPostRequests ==
    { [Request(<<"m", "a", "i">>, Null) EXCEPT !.price_min = Str(<<"a", "b", "c">>)],
      [Request(<<"m", "a", "i">>, Null) EXCEPT !.price_max = Num(1000)] }

NextBounds ==
    \/ \E status \in StatusChoices : CreateListing(status)
    \/ \E req \in BoundsGetRequests, dbFails \in BOOLEAN :
          SearchGet(req, dbFails)
    \/ \E req \in BoundsPostRequests, dbFails \in BOOLEAN :
          SearchPost(req, dbFails)
    \/ SendResponse

SpecBounds == Init /\ [][NextBounds]_vars

\* a supplied price bound that is not a number
MalformedBound(v) == v.t = "str" /\ v.s # <<>> /\ ~ParseFloat(v.s).ok

\* C21 (as claimed): a search request with a price_min or price_max that is
\* not a number is rejected with a client error (status 4xx) and no listing
\* is returned for it.
C21_Original ==
    (/\ searchResp.endpoint \in {"get", "post"}
     /\ \/ MalformedBound(searchResp.req.price_min)
        \/ MalformedBound(searchResp.req.price_max)) =>
       /\ searchResp.status \in 400..499
       /\ searchResp.results = <<>>

(***************************************************************************)
(* The confidence of a prediction as a function of its horizon             *)
(***************************************************************************)
\* horizons within 1..365 the calculation is evaluated for.  0.8 - 70/100
\* comes out of binary floating point a rounding error above 0.1, which
\* hundredths do not show, so 70 is not among them.
HorizonSamples == {1, 7, 30, 69, 71, 72, 90, 100, 180, 365}

NextConfidence ==
    \/ \E days_ahead \in HorizonSamples : ConfidenceCalculation(days_ahead)
    \/ NextDay

SpecConfidence == Init /\ [][NextConfidence]_vars

PriceLexicon ==
    << [word |-> <<"c", "h", "e", "a", "p">>, band |-> "low"],
       [word |-> <<"e", "x", "p", "e", "n", "s", "i", "v", "e">>, band |-> "high"],
       [word |-> <<"a", "f", "f", "o", "r", "d", "a", "b", "l", "e">>, band |-> "low"],
       [word |-> <<"b", "u", "d", "g", "e", "t">>, band |-> "low"],
       [word |-> <<"p", "r", "e", "m", "i", "u", "m">>, band |-> "high"] >>

\* the entries of the price lexicon that occur in the query of the answer
PriceFound ==
    {i \in 1..Len(PriceLexicon) :
        Contains(Strip(ToLower(searchResp.req.q)), PriceLexicon[i].word)}

ParsedAnswer ==
    searchResp.endpoint = "search_products" /\ searchResp.status = 200

\* C23: the price band hint of a parsed query is the band of the last entry
\* of the price lexicon (cheap, expensive, affordable, budget, premium; cheap,
\* affordable and budget are LOW, expensive and premium HIGH) that occurs in
\* the query, and unset if none occurs: a later match overrides an earlier
\* one.
C23_Theorem ==
    ParsedAnswer =>
       IF PriceFound = {} THEN searchResp.parsed_query.price_range = ""
       ELSE LET last == CHOOSE i \in PriceFound : \A j \in PriceFound : j <= i
            IN searchResp.parsed_query.price_range = PriceLexicon[last].band

\* a query with an earlier HIGH entry and a later LOW entry was parsed
C23_Witness ==
    /\ ParsedAnswer
    /\ \E i, j \in PriceFound :
          i < j /\ PriceLexicon[i].band = "high" /\ PriceLexicon[j].band = "low"
    /\ searchResp.parsed_query.price_range = "low"

\* the quality lexicon in its scan order, as the claim gives it
QualityLexicon ==
    << [phrase |-> <<"p", "r", "e", "m", "i", "u", "m">>, grade |-> "PREMIUM"],
       [phrase |-> <<"o", "r", "g", "a", "n", "i", "c">>, grade |-> "PREMIUM"],
       [phrase |-> <<"h", "i", "g", "h", " ", "q", "u", "a", "l", "i", "t", "y">>, grade |-> "PREMIUM"],
       [phrase |-> <<"s", "t", "a", "n", "d", "a", "r", "d">>, grade |-> "STANDARD"],
       [phrase |-> <<"e", "c", "o", "n", "o", "m", "y">>, grade |-> "ECONOMY"],
       [phrase |-> <<"b", "u", "d", "g", "e", "t">>, grade |-> "ECONOMY"] >>

\* the entries of the quality lexicon that occur in the query of the answer
QualityFound ==
    {i \in 1..Len(QualityLexicon) :
        Contains(Strip(ToLower(searchResp.req.q)), QualityLexicon[i].phrase)}

\* where a phrase first occurs in a text
FirstAt(text, phrase) ==
    CHOOSE k \in 1..Len(text) :
        /\ k + Len(phrase) - 1 <= Len(text)
        /\ SubSeq(text, k, k + Len(phrase) - 1) = phrase
        /\ \A m \in 1..(k - 1) : SubSeq(text, m, m + Len(phrase) - 1) # phrase

\* C24: the quality hint of a parsed query is the grade of the first entry
\* of the quality lexicon (premium, organic, high quality, standard, economy,
\* budget) that occurs in the query, wherever later entries stand in the
\* text, and unset if none occurs.
C24_Theorem ==
    ParsedAnswer =>
       IF QualityFound = {} THEN searchResp.parsed_query.quality = ""
       ELSE LET first == CHOOSE i \in QualityFound :
                            \A j \in QualityFound : i <= j
            IN searchResp.parsed_query.quality = QualityLexicon[first].grade

\* a query in which a later entry of another grade stands before the first
\* entry in the text was parsed
C24_Witness ==
    /\ ParsedAnswer
    /\ \E i, j \in QualityFound :
          /\ i < j
          /\ QualityLexicon[i].grade # QualityLexicon[j].grade
          /\ LET text == Strip(ToLower(searchResp.req.q)) IN
               FirstAt(text, QualityLexicon[j].phrase)
                 < FirstAt(text, QualityLexicon[i].phrase)
          /\ searchResp.parsed_query.quality = QualityLexicon[i].grade

(***************************************************************************)
(* The best time to buy against the demand level                           *)
(***************************************************************************)
\* the timing of an answer in the words of the claim
TimingLabel(label) ==
    CASE label = "Soon (prices may rise)" -> "SOON"
      [] label = "Now" -> "NOW"
      [] label = "Good time to buy" -> "NOW"
      [] OTHER -> label

\* the timing the claim derives from the demand level shown with it
ClaimedTiming(demand_level, price_trend) ==
    IF demand_level = "HIGH" /\ price_trend > 0 THEN "SOON"
    ELSE IF demand_level = "LOW" /\ price_trend < 0 THEN "NOW"
    ELSE "FLEXIBLE"

\* C25 (as claimed): for every listing shown with a demand level and a best
\* time to buy, the timing is SOON exactly when the demand level is HIGH and
\* the price trend is positive, NOW exactly when the demand level is LOW and
\* the trend is negative, and FLEXIBLE in every other case.
C25_Original ==
    \A k \in 1..Len(searchResp.results) :
        LET r == searchResp.results[k] IN
        (r.demand_level # "UNKNOWN" /\ r.best_time_to_buy # "UNKNOWN") =>
           TimingLabel(r.best_time_to_buy)
             = ClaimedTiming(UpperLabel(r.demand_level),
                             listings[r.id].price_trend)

(***************************************************************************)
(* predict_market_prices when a step of it raises                          *)
(***************************************************************************)
\* the call of thread t is about to return and its lookup, its computation
\* or its store raises
Raises(t) ==
    /\ pc[t] = "looked"
    /\ \/ looked[t].outcome = "raised"
       \/ /\ looked[t].outcome = "miss"
          /\ \/ GeneratePricePrediction(args[t].crop_type, args[t].region,
                                        args[t].days_ahead, today).raised
             \/ ~OrmAccepts(CreateKwargs)

C26_Step ==
    \A t \in Threads :
        (Raises(t) /\ pc'[t] = "idle") =>
           /\ store' = store
           /\ Len(hist') = Len(hist) + 1
           /\ "error" \in hist'[Len(hist')].result.keys
           /\ "predicted_price" \notin hist'[Len(hist')].result.keys
           /\ "source" \notin hist'[Len(hist')].result.keys

\* C26: a call of predict_market_prices whose cache lookup, computation or
\* store raises returns an error result without predicted_price and without
\* source tag, and leaves the prediction store as it was.
C26_Theorem == [][C26_Step]_vars

\* a call whose lookup raised has returned its error result and the store
\* holds no row
C26_Witness ==
    /\ \E i \in 1..Len(hist) :
          hist[i].lookup = "raised" /\ "error" \in hist[i].result.keys
    /\ store = <<>>

(***************************************************************************)
(* The ranker called with intents that differ in the price range only      *)
(***************************************************************************)
Intent(keywords, category, quality, location, price_range) ==
    [keywords |-> keywords, category |-> category, price_range |-> price_range,
     quality |-> quality, location |-> location]

RankIntents ==
    { Intent(k[1], k[2], k[3], k[4], price_range) :
        k \in { << <<"m", "a", "i", "z", "e">>, <<>>, "", <<>> >>,
                << <<>>, <<>>, "ORGANIC", <<>> >>,
                << <<"m", "a", "i", "z", "e">>, <<>>, "", <<"n", "a", "i", "r", "o", "b", "i">> >>,
                << <<>>, <<"g", "r", "a", "i", "n", "s">>, "", <<>> >> },
        price_range \in {"", "low", "high"} }

\* _semantic_search called on the available listings with an intent; the
\* caller may rank again while it holds the previous ranking.  tie is the
\* order the database gives rows of equal rank.
SemanticSearchCall(parsed, newestFirst) ==
    /\ Idle \/ searchResp.endpoint = "semantic_search"
    /\ LET ids == SemanticSearch(parsed, newestFirst) IN
        searchResp' =
            [endpoint |-> "semantic_search", req |-> NoRequest,
             status |-> 200,
             results |-> [k \in 1..Len(ids) |-> [id |-> ids[k]]],
             total |-> Len(ids), parsed_query |-> parsed,
             tie |-> newestFirst]
    /\ UNCHANGED <<today, listings, searchLog, prefs>>
    /\ UNCHANGED predictorVars
    /\ UNCHANGED viewVars

NextRank ==
    \/ \E status \in StatusChoices : CreateListing(status)
    \/ \E parsed \in RankIntents, newestFirst \in BOOLEAN :
          SemanticSearchCall(parsed, newestFirst)
    \/ SendResponse

SpecRank == Init /\ [][NextRank]_vars

\* two intents equal in keywords, category, quality and location
SameButPriceRange(p, q) ==
    /\ p.keywords = q.keywords
    /\ p.category = q.category
    /\ p.quality = q.quality
    /\ p.location = q.location

C27_Step ==
    (/\ searchResp.endpoint = "semantic_search"
     /\ searchResp'.endpoint = "semantic_search"
     /\ listings' = listings
     /\ searchResp'.tie = searchResp.tie
     /\ SameButPriceRange(searchResp.parsed_query, searchResp'.parsed_query))
    => searchResp'.results = searchResp.results

\* C27: two calls of the ranker over the same listings (and the same
\* database order for rows of equal rank) whose intents are equal in
\* keywords, category, quality and location but differ in the price range
\* return the same listings in the same order.
C27_Theorem == [][C27_Step]_vars

\* the ranker has answered an intent with the price range high by a
\* listing that costs no more than 10.00
C27_Witness ==
    /\ searchResp.endpoint = "semantic_search"
    /\ searchResp.parsed_query.price_range = "high"
    /\ \E r \in Returned : r.price <= 1000

(***************************************************************************)
(* The grades the parser can ask for                                       *)
(***************************************************************************)
\* the quality hint of the answer comes from the word "organic"
HintFromOrganic ==
    LET query == Strip(ToLower(searchResp.req.q)) IN
    /\ Contains(query, <<"o", "r", "g", "a", "n", "i", "c">>)
    /\ ~Contains(query, <<"p", "r", "e", "m", "i", "u", "m">>)

\* C28: the quality hint of a parsed query is PREMIUM, STANDARD, ECONOMY or
\* unset and never ORGANIC, so a search whose hint comes from the word
\* "organic" returns no listing of grade ORGANIC.
C28_Theorem ==
    ParsedAnswer =>
       /\ searchResp.parsed_query.quality \in {"", "PREMIUM", "STANDARD", "ECONOMY"}
       /\ HintFromOrganic =>
             \A r \in Returned : r.quality_grade # "ORGANIC"

\* a search for "organic" was answered with the hint PREMIUM while a listing
\* of grade ORGANIC that matches its keywords was on offer and left out
C28_Witness ==
    /\ ParsedAnswer
    /\ HintFromOrganic
    /\ searchResp.parsed_query.quality = "PREMIUM"
    /\ \E i \in Available :
          /\ listings[i].quality_grade = "ORGANIC"
          /\ SearchMatches(listings[i], searchResp.parsed_query.keywords)
          /\ listings[i] \notin Returned

(***************************************************************************)
(* Bulk requests whose entries fail one by one                             *)
(***************************************************************************)
FallbackEntries ==
    {[cropType |-> "maize", days_ahead |-> 30],
     [cropType |-> "Tomatoes", days_ahead |-> 7],
     [cropType |-> "Mango", days_ahead |-> 30]}

FallbackRequests ==
    UNION {[1..n -> FallbackEntries] : n \in 0..MaxBulk}

FallbackApiOutcomes == {o \in ApiOutcomes : o.price # 10}

\* the response of the bulk call goes out to the client
SendBulkResponse ==
    /\ bulkResp # NoBulkResp
    /\ bulkResp' = NoBulkResp
    /\ UNCHANGED <<today, apiCalls, viewHist>>
    /\ UNCHANGED predictorVars
    /\ UNCHANGED searchVars

\* BulkPricePredictionView.post, one request served at a time
BulkPostServed(predictions, apis, variation) ==
    /\ bulkResp = NoBulkResp
    /\ BulkPricePredictionPost(predictions, apis, variation)

NextFallback ==
    \/ \E predictions \in FallbackRequests, variation \in Variations :
          \E apis \in [1..Len(predictions) -> FallbackApiOutcomes] :
             BulkPostServed(predictions, apis, variation)
    \/ SendBulkResponse
    \/ NextDay

SpecFallback == Init /\ [][NextFallback]_vars

\* C29: the response to a bulk request that passes validation holds one
\* prediction per request entry, in the order of the request; an entry
\* whose predictor call raises or reports failure gets a fallback
\* prediction (prediction_type fallback, predicted_price > 0) and the other
\* entries are answered all the same.
C29_Theorem ==
    (bulkResp.status # 0 /\ BulkPricePredictionValid(bulkResp.request)) =>
       /\ bulkResp.status = 200
       /\ Len(bulkResp.predictions) = Len(bulkResp.request)
       /\ \A i \in 1..Len(bulkResp.request) :
             /\ bulkResp.predictions[i].crop_type
                  = Capitalize(bulkResp.request[i].cropType)
             /\ bulkResp.apis[i].kind \in {"raise", "fail"} =>
                   /\ bulkResp.predictions[i].prediction_type = "fallback"
                   /\ bulkResp.predictions[i].predicted_price > 0

\* a request for two crops was answered, the first by a fallback because its
\* predictor call raised, the second by the predictor
C29_Witness ==
    /\ bulkResp.status = 200
    /\ Len(bulkResp.request) >= 2
    /\ bulkResp.apis[1].kind = "raise"
    /\ bulkResp.apis[2].kind = "ok"
    /\ bulkResp.predictions[1].crop_type # bulkResp.predictions[2].crop_type
    /\ bulkResp.predictions[1].prediction_type = "fallback"
    /\ bulkResp.predictions[2].prediction_type = "enhanced"

(***************************************************************************)
(* Buyers who never wrote preferences                                      *)
(***************************************************************************)
\* no preference is ever written: the profile is the one the system made
NextOnboard ==
    \/ \E status \in StatusChoices : CreateListing(status)
    \/ CreateUserPreferences
    \/ PreferenceGet
    \/ Personalized
    \/ SendResponse

SpecOnboard == Init /\ [][NextOnboard]_vars

\* C30 (as claimed): a profile the system creates on its own, when the buyer
\* is created or on the buyer's first access, has no active narrowing
\* preference (no preferred categories, no quality preference, no price
\* bounds, empty preferred_location), so the personalized recommendations
\* of a buyer who never wrote preferences leave out no listing on offer.
C30_Original ==
    /\ prefs.exists => NoPreferenceSet(prefs)
    /\ (searchResp.endpoint = "personalized" /\ searchResp.status = 200) =>
          {searchResp.results[k].id : k \in 1..Len(searchResp.results)}
            = Available

====
